---------------------------- MODULE Spec2Model ----------------------------
(***************************************************************************)
(* WhatsApp AI bot (BaUka0/whatsappaibot).                                 *)
(*                                                                         *)
(* Two layers are modelled.                                                *)
(*   - Admission: the FastAPI webhook of src/main.py, which rate-limits    *)
(*     and de-duplicates deliveries with Redis keys and hands admitted     *)
(*     events to the Celery task process_message.                          *)
(*   - Pipeline: the Celery task of src/worker.py, which turns one event   *)
(*     into replies, history writes and settings changes.                  *)
(* Every await of the source is one step, so that requests and tasks can   *)
(* interleave where the program lets them.                                 *)
(***************************************************************************)
EXTENDS Integers, Sequences, FiniteSets, TLC

(***************************************************************************)
(* Program constants.                                                      *)
(***************************************************************************)
RATE_LIMIT_WINDOW == 60
RATE_LIMIT_MAX_REQUESTS == 30
DEDUP_TTL == 600

(***************************************************************************)
(* Bounds of the model.                                                    *)
(***************************************************************************)
\* seconds that pass in one Tick
TickStep == 300

(***************************************************************************)
(* Small input sets.                                                       *)
(***************************************************************************)
\* the chat whose deliveries the webhook specifications follow
WebChats == {<<"7", "@c.us">>}
MsgIds == {"m1", "m2"}
Slots == {"r1", "r2"}
SeqSlots == {"r1"}

\* what GET returns for a key that does not exist
Nil == -1
NoExpiry == -1

(***************************************************************************)
(* Strings.  A string is a sequence of characters; a message text is       *)
(* written character by character so that strip, lower, startswith, split *)
(* and the word-boundary search work on it as they do in Python.  Fixed    *)
(* texts the pipeline only passes on (a reply, a transcription, a name)    *)
(* are one opaque character each.                                          *)
(***************************************************************************)
IsSpace(ch) == ch = " "

LowerChar(ch) ==
    CASE ch = "A" -> "a" []
        ch = "B" -> "b" []
        ch = "C" -> "c" []
        ch = "D" -> "d" []
        ch = "E" -> "e" []
        ch = "F" -> "f" []
        ch = "G" -> "g" []
        ch = "H" -> "h" []
        ch = "I" -> "i" []
        ch = "J" -> "j" []
        ch = "K" -> "k" []
        ch = "L" -> "l" []
        ch = "M" -> "m" []
        ch = "N" -> "n" []
        ch = "O" -> "o" []
        ch = "P" -> "p" []
        ch = "Q" -> "q" []
        ch = "R" -> "r" []
        ch = "S" -> "s" []
        ch = "T" -> "t" []
        ch = "U" -> "u" []
        ch = "V" -> "v" []
        ch = "W" -> "w" []
        ch = "X" -> "x" []
        ch = "Y" -> "y" []
        ch = "Z" -> "z"
      [] OTHER -> ch

\* str.lower()
Lower(str) == [i \in DOMAIN str |-> LowerChar(str[i])]

RECURSIVE LStrip(_)
LStrip(str) == IF str # <<>> /\ IsSpace(Head(str)) THEN LStrip(Tail(str)) ELSE str

RECURSIVE RStrip(_)
RStrip(str) ==
    IF str # <<>> /\ IsSpace(str[Len(str)]) THEN RStrip(SubSeq(str, 1, Len(str) - 1)) ELSE str

\* str.strip()
Strip(str) == RStrip(LStrip(str))

\* str.startswith(prefix)
StartsWith(str, prefix) ==
    /\ Len(str) >= Len(prefix)
    /\ SubSeq(str, 1, Len(prefix)) = prefix

\* str.endswith(suffix)
EndsWith(str, suffix) ==
    /\ Len(str) >= Len(suffix)
    /\ SubSeq(str, Len(str) - Len(suffix) + 1, Len(str)) = suffix

\* str[n:]
From(str, n) == SubSeq(str, n + 1, Len(str))

\* index of the first whitespace of str, 0 when it has none
FirstSpace(str) ==
    IF \E i \in DOMAIN str : IsSpace(str[i])
    THEN CHOOSE i \in DOMAIN str : IsSpace(str[i]) /\ \A j \in 1..(i - 1) : ~IsSpace(str[j])
    ELSE 0

\* str.split(maxsplit=1) of a stripped, non-empty str: one part when it has no
\* whitespace, else the first token and the rest after the whitespace run
SplitMax1(str) ==
    IF str = <<>> THEN <<>>
    ELSE IF FirstSpace(str) = 0 THEN <<str>>
    ELSE <<SubSeq(str, 1, FirstSpace(str) - 1), LStrip(From(str, FirstSpace(str)))>>

\* sub occurs in str at position i
OccursAt(str, sub, i) ==
    /\ i + Len(sub) - 1 <= Len(str)
    /\ SubSeq(str, i, i + Len(sub) - 1) = sub


(***************************************************************************)
(* Identities, configuration values and the texts of inbound messages.     *)
(***************************************************************************)
\* chat and sender ids: a number and the suffix that tells private chats from groups
Alice == <<"7", "@c.us">>
AdminUser == <<"9", "@c.us">>
GroupChat == <<"1", "@g.us">>
GroupSuffix == <<"@g.us">>

\* settings.BOT_NICKNAME (transliterated)
BOT_NICKNAME == <<"b", "o", "t", "y", "a", "r", "a">>
\* settings.OPENROUTER_MODEL, the default model
OPENROUTER_MODEL == <<"llama-3.3-70b-versatile">>
\* a second model the provider lists
OtherModel == <<"gemma2-9b-it">>
\* a model name the provider does not list
UnknownModel == <<"gpt-x">>

\* command literals of _handle_commands
Cmd ==
    [ai_on |-> <<"/", "a", "i", " ", "o", "n">>,
     ai_off |-> <<"/", "a", "i", " ", "o", "f", "f">>,
     reset |-> <<"/", "r", "e", "s", "e", "t">>,
     help |-> <<"/", "h", "e", "l", "p">>,
     transcribe |-> <<"/", "t", "r", "a", "n", "s", "c", "r", "i", "b", "e">>,
     stats |-> <<"/", "s", "t", "a", "t", "s">>,
     model |-> <<"/", "m", "o", "d", "e", "l">>,
     model_sp |-> <<"/", "m", "o", "d", "e", "l", " ">>,
     search |-> <<"/", "s", "e", "a", "r", "c", "h">>,
     search_sp |-> <<"/", "s", "e", "a", "r", "c", "h", " ">>,
     draw |-> <<"/", "d", "r", "a", "w">>,
     draw_sp |-> <<"/", "d", "r", "a", "w", " ">>,
     summary |-> <<"/", "s", "u", "m", "m", "a", "r", "y">>,
     ban_sp |-> <<"/", "b", "a", "n", " ">>,
     unban_sp |-> <<"/", "u", "n", "b", "a", "n", " ">>,
     blacklist |-> <<"/", "b", "l", "a", "c", "k", "l", "i", "s", "t">>]

\* message texts the gateway delivers
Txt ==
    [empty |-> <<>>,
     hello |-> <<"h", "i", " ", "a", "l", "l">>,
     nick |-> <<"b", "o", "t", "y", "a", "r", "a", " ", "h", "i">>,
     nick_upper |-> <<"h", "i", ",", " ", "B", "o", "t", "y", "a", "r", "a", "!">>,
     nick_inside |-> <<"r", "o", "b", "o", "t", "y", "a", "r", "a", " ", "h", "i">>,
     reset |-> <<"/", "r", "e", "s", "e", "t">>,
     reset_loud |-> <<" ", "/", "R", "e", "s", "e", "t", " ">>,
     ai_on |-> <<"/", "a", "i", " ", "o", "n">>,
     ai_off |-> <<"/", "a", "i", " ", "o", "f", "f">>,
     help |-> <<"/", "h", "e", "l", "p">>,
     transcribe |-> <<"/", "t", "r", "a", "n", "s", "c", "r", "i", "b", "e">>,
     stats |-> <<"/", "s", "t", "a", "t", "s">>,
     model |-> <<"/", "m", "o", "d", "e", "l">>,
     model_set |-> Cmd.model_sp \o OtherModel,
     model_bad |-> Cmd.model_sp \o UnknownModel,
     search |-> <<"/", "s", "e", "a", "r", "c", "h">>,
     search_q |-> <<"/", "s", "e", "a", "r", "c", "h", " ", "t", "l", "a">>,
     draw |-> <<"/", "d", "r", "a", "w">>,
     draw_p |-> <<"/", "d", "r", "a", "w", " ", "c", "a", "t">>,
     summary |-> <<"/", "s", "u", "m", "m", "a", "r", "y">>,
     blacklist |-> <<"/", "b", "l", "a", "c", "k", "l", "i", "s", "t">>,
     blacklist_loud |-> <<"/", "B", "L", "A", "C", "K", "L", "I", "S", "T">>,
     ban_alice |-> Cmd.ban_sp \o Alice,
     unban_alice |-> Cmd.unban_sp \o Alice,
     ban_admin |-> Cmd.ban_sp \o AdminUser,
     unban_admin |-> Cmd.unban_sp \o AdminUser,
     ban_loud |-> <<"/", "B", "A", "N", " ">> \o Alice,
     unknown_cmd |-> <<"/", "f", "o", "o">>]

Chats == {Alice, AdminUser, GroupChat}

VARIABLES
    ratelimit,  \* Redis keys ratelimit:{chat_id}: [val, ttl], val = 0 when the key is absent
    dedup,      \* Redis keys dedup:{idMessage}: [val, ttl]
    req,        \* in-flight webhook requests, one per slot
    arrivals,   \* per chat: deliveries the limiter let through in the current rate window
    handed,     \* Celery broker: per message id, the tasks created by process_message.delay(body)
                \* since the dedup record of the id was created
    config,     \* settings: ADMIN_CHAT_ID (<<>> when not configured)
    history,    \* table chat_messages: per chat the rows [role, content] in creation order
    chat_settings, \* table chat_settings: per chat [ai_enabled, transcribe_mode, model]
    blacklist,  \* table blacklist: the blocked user ids
    files,      \* the files present in settings.MEDIA_DIR
    run,        \* per worker: the process_message task it runs
    events      \* number of tasks started so far

webVars == <<ratelimit, dedup, req, arrivals, handed>>

pipeVars == <<config, history, chat_settings, blacklist, files, run, events>>

vars == <<ratelimit, dedup, req, arrivals, handed,
          config, history, chat_settings, blacklist, files, run, events>>

(***************************************************************************)
(* Redis primitives used by the webhook.                                   *)
(***************************************************************************)
AbsentKey == [val |-> 0, ttl |-> 0]

\* GET key: the stored value, Nil when the key does not exist
RedisGet(store, k) == IF store[k].val = 0 THEN Nil ELSE store[k].val

\* SET key value EX seconds
RedisSetEx(store, k, v, ex) == [store EXCEPT ![k] = [val |-> v, ttl |-> ex]]

\* INCR key: creates the key with value 1 and no expiry when it is absent,
\* keeps the expiry of an existing key
RedisIncr(store, k) ==
    IF store[k].val = 0
    THEN [store EXCEPT ![k] = [val |-> 1, ttl |-> NoExpiry]]
    ELSE [store EXCEPT ![k].val = @ + 1]

\* the passing of d seconds: keys whose time to live runs out disappear
RedisExpire(store, d) ==
    [k \in DOMAIN store |->
        IF store[k].val = 0 \/ store[k].ttl = NoExpiry THEN store[k]
        ELSE IF store[k].ttl - d <= 0 THEN AbsentKey
        ELSE [store[k] EXCEPT !.ttl = @ - d]]

(***************************************************************************)
(* Webhook requests.                                                       *)
(***************************************************************************)
InFlightPc == {"rl_get", "rl_set", "rl_incr", "dd_get", "dd_set", "enqueue"}

\* wroteRl, wroteDd: the request has written the counter, the dedup record; redo: it
\* delivers again the id that the request before it in the slot saw rate-limited
IdleReq == [pc |-> "idle", chat |-> <<"7", "@c.us">>, id |-> "m1",
            wroteRl |-> FALSE, wroteDd |-> FALSE, redo |-> FALSE]

InFlight(s) == req[s].pc \in InFlightPc

Sat(n) == IF n > RATE_LIMIT_MAX_REQUESTS THEN RATE_LIMIT_MAX_REQUESTS + 1 ELSE n

\* POST /webhook arrives with typeWebhook = incomingMessageReceived and an idMessage
Receive(s, c, m) ==
    /\ ~InFlight(s)
    /\ req' = [req EXCEPT ![s] =
                 [pc |-> "rl_get", chat |-> c, id |-> m, wroteRl |-> FALSE, wroteDd |-> FALSE,
                  redo |-> (req[s].pc = "rate_limited" /\ req[s].chat = c /\ req[s].id = m)]]
    /\ UNCHANGED <<ratelimit, dedup, arrivals, handed>>
    /\ UNCHANGED pipeVars

\* the comparison off by one
OverLimitStrict(current) == current > RATE_LIMIT_MAX_REQUESTS

\* int(current) >= RATE_LIMIT_MAX_REQUESTS
OverLimit(current) == current >= RATE_LIMIT_MAX_REQUESTS

\* the rejected delivery is counted as well
RlGetCounting(s) ==
    /\ req[s].pc = "rl_get"
    /\ LET c == req[s].chat
           current == RedisGet(ratelimit, c)
       IN  IF current = Nil
           THEN req' = [req EXCEPT ![s].pc = "rl_set"] /\ UNCHANGED ratelimit
           ELSE IF OverLimit(current)
                THEN /\ req' = [req EXCEPT ![s].pc = "rate_limited"]
                     /\ ratelimit' = RedisIncr(ratelimit, c)
                ELSE req' = [req EXCEPT ![s].pc = "rl_incr"] /\ UNCHANGED ratelimit
    /\ UNCHANGED <<dedup, arrivals, handed>>
    /\ UNCHANGED pipeVars

\* check_rate_limit: current = await redis_client.get(key), and the branch taken on it
RlGet(s) ==
    /\ req[s].pc = "rl_get"
    /\ LET c == req[s].chat
           current == RedisGet(ratelimit, c)
       IN  IF current = Nil
           THEN req' = [req EXCEPT ![s].pc = "rl_set"]
           ELSE IF OverLimit(current)
                THEN req' = [req EXCEPT ![s].pc = "rate_limited"]
                ELSE req' = [req EXCEPT ![s].pc = "rl_incr"]
    /\ UNCHANGED <<ratelimit, dedup, arrivals, handed>>
    /\ UNCHANGED pipeVars

\* check_rate_limit: await redis_client.set(key, "1", ex=RATE_LIMIT_WINDOW); return True
RlSet(s) ==
    /\ req[s].pc = "rl_set"
    /\ LET c == req[s].chat
       IN  /\ ratelimit' = RedisSetEx(ratelimit, c, 1, RATE_LIMIT_WINDOW)
           /\ arrivals' = [arrivals EXCEPT ![c] = Sat(@ + 1)]
           /\ req' = [req EXCEPT ![s].pc = "dd_get", ![s].wroteRl = TRUE]
    /\ UNCHANGED <<dedup, handed>>
    /\ UNCHANGED pipeVars

\* check_rate_limit: await redis_client.incr(key); return True
RlIncr(s) ==
    /\ req[s].pc = "rl_incr"
    /\ LET c == req[s].chat
       IN  /\ ratelimit' = RedisIncr(ratelimit, c)
           /\ arrivals' = [arrivals EXCEPT ![c] = Sat(@ + 1)]
           /\ req' = [req EXCEPT ![s].pc = "dd_get", ![s].wroteRl = TRUE]
    /\ UNCHANGED <<dedup, handed>>
    /\ UNCHANGED pipeVars

\* the dedup record is never consulted
DedupHitNever(store, m) == FALSE

\* if await redis_client.get(f"dedup:{id_message}")
DedupHit(store, m) == RedisGet(store, m) # Nil

DdGet(s) ==
    /\ req[s].pc = "dd_get"
    /\ req' = [req EXCEPT ![s].pc = IF DedupHit(dedup, req[s].id) THEN "duplicate" ELSE "dd_set"]
    /\ UNCHANGED <<ratelimit, dedup, arrivals, handed>>
    /\ UNCHANGED pipeVars

\* await redis_client.set(f"dedup:{id_message}", "1", ex=600)
DdSet(s) ==
    /\ req[s].pc = "dd_set"
    /\ dedup' = RedisSetEx(dedup, req[s].id, 1, DEDUP_TTL)
    /\ handed' = [handed EXCEPT ![req[s].id] = IF dedup[req[s].id].val = 0 THEN 0 ELSE @]
    /\ req' = [req EXCEPT ![s].pc = "enqueue", ![s].wroteDd = TRUE]
    /\ UNCHANGED <<ratelimit, arrivals>>
    /\ UNCHANGED pipeVars

\* process_message.delay(body); return {"status": "received"}
Enqueue(s) ==
    /\ req[s].pc = "enqueue"
    /\ handed' = [handed EXCEPT ![req[s].id] = @ + 1]
    /\ req' = [req EXCEPT ![s].pc = "received"]
    /\ UNCHANGED <<ratelimit, dedup, arrivals>>
    /\ UNCHANGED pipeVars

\* a Redis or broker call of the handler raises: the request ends with an error response
RequestFails(s) ==
    /\ InFlight(s)
    /\ req' = [req EXCEPT ![s].pc = "error"]
    /\ UNCHANGED <<ratelimit, dedup, arrivals, handed>>
    /\ UNCHANGED pipeVars

\* TickStep seconds pass
Tick ==
    /\ ratelimit' = RedisExpire(ratelimit, TickStep)
    /\ dedup' = RedisExpire(dedup, TickStep)
    /\ arrivals' = [c \in Chats |->
                      IF ratelimit[c].val # 0 /\ RedisExpire(ratelimit, TickStep)[c].val = 0
                      THEN 0 ELSE arrivals[c]]
    /\ \/ ratelimit' # ratelimit
       \/ dedup' # dedup
    /\ UNCHANGED <<req, handed>>
    /\ UNCHANGED pipeVars

(***************************************************************************)
(* Pipeline: the Celery task process_message of src/worker.py.             *)
(* A task is at the external call it makes next (pc); each action is one   *)
(* call together with the local code that follows it up to the next call.  *)
(***************************************************************************)
Workers == {"w1", "w2"}
SeqWorkers == {"w1"}

\* None for strings
NoStr == <<>>

IsGroup(chat_id) == EndsWith(chat_id, GroupSuffix)

\* senderData.senderName
SenderName(sender) == IF sender = AdminUser THEN <<"Admin">> ELSE <<"Alice">>


\* an inbound event: quoted is the typeMessage of the quoted message ("" when there is none),
\* url tells whether fileMessageData.downloadUrl is present, button is selectedButtonId
Event(chat, sender, type, text, quoted, url, button) ==
    [chat |-> chat, sender |-> sender, type |-> type, text |-> text,
     quoted |-> quoted, url |-> url, button |-> button]

TextEvent(chat, sender, text) == Event(chat, sender, "textMessage", text, "", FALSE, "")

\* the sender of a private chat is the chat itself
PrivateTexts ==
    {TextEvent(Alice, Alice, t) :
        t \in {Txt.empty, Txt.hello, Txt.reset, Txt.reset_loud, Txt.ai_on, Txt.ai_off, Txt.help,
               Txt.transcribe, Txt.stats, Txt.model, Txt.model_set, Txt.model_bad, Txt.search,
               Txt.search_q, Txt.draw, Txt.draw_p, Txt.summary, Txt.ban_alice, Txt.unknown_cmd}}

AdminTexts ==
    {TextEvent(AdminUser, AdminUser, t) :
        t \in {Txt.ban_alice, Txt.unban_alice, Txt.unban_admin, Txt.blacklist, Txt.ban_loud}}

GroupTexts ==
    {TextEvent(GroupChat, Alice, t) :
        t \in {Txt.hello, Txt.nick, Txt.nick_upper, Txt.nick_inside, Txt.summary, Txt.unknown_cmd}}

Buttons == {"btn_reset", "btn_help", "btn_transcribe", "btn_ai_on", "btn_ai_off", "btn_other", ""}

\* replies, voice notes, pictures, button presses and a sticker
OtherEvents ==
    {Event(Alice, Alice, "extendedTextMessage", Txt.hello, q, FALSE, "") : q \in {"", "textMessage"}}
    \cup {Event(Alice, Alice, "quotedMessage", Txt.hello, q, FALSE, "") : q \in {"voiceMessage", "imageMessage"}}
    \cup {Event(Alice, Alice, "audioMessage", Txt.empty, "", TRUE, ""),
          Event(Alice, Alice, "voiceMessage", Txt.empty, "", FALSE, ""),
          Event(GroupChat, Alice, "voiceMessage", Txt.empty, "", TRUE, "")}
    \cup {Event(Alice, Alice, "imageMessage", t, "", url, "") : t \in {Txt.hello}, url \in BOOLEAN}
    \cup {Event(GroupChat, Alice, "imageMessage", Txt.hello, "", TRUE, "")}
    \cup {Event(Alice, Alice, "buttonsResponseMessage", Txt.empty, "", FALSE, b) : b \in Buttons}
    \cup {Event(GroupChat, Alice, "buttonsResponseMessage", Txt.nick, "", FALSE, b) :
             b \in {"btn_ai_on", "btn_other"}}
    \cup {Event(Alice, Alice, "stickerMessage", Txt.empty, "", FALSE, "")}

Events == PrivateTexts \cup AdminTexts \cup GroupTexts \cup OtherEvents

NoEvent == Event(Alice, Alice, "textMessage", NoStr, "", FALSE, "")

IdleRun == [pc |-> "idle", ev |-> NoEvent, text |-> NoStr, quoted |-> NoStr,
            media |-> FALSE, file |-> "", cmd |-> "", arg |-> NoStr, msg |-> "",
            hist |-> <<>>, model |-> NoStr, resp |-> NoStr, cur |-> FALSE,
            heard |-> NoStr, orig |-> NoStr, caption |-> NoStr, used |-> NoStr, prompt |-> <<>>, log |-> <<>>]

\* the calls a task has made so far that act outside it: sends, writes, model calls,
\* file transfers and the blacklist lookup; ok tells whether the call took effect
LogOp(r, op, what, ok) == [r EXCEPT !.log = Append(@, [op |-> op, what |-> what, ok |-> ok])]

\* a call whose outcome the task ignores or keeps in its locals
Called(r, op, what) == LogOp(r, op, what, TRUE)

\* the task returns: its locals are dropped, the event and the record of its calls stay
Finish(r) ==
    [IdleRun EXCEPT !.pc = "done", !.ev = r.ev, !.log = r.log, !.prompt = r.prompt, !.used = r.used]

Count(log, ops) == Cardinality({i \in DOMAIN log : log[i].op \in ops})

SendOps == {"send_message", "send_file_by_upload"}

(***************************************************************************)
(* _handle_commands: which branch a text takes.                            *)
(***************************************************************************)
\* the sender is not compared with the admin id
IsAdminAnyone(sender_id) == TRUE

\* settings.ADMIN_CHAT_ID and sender_id == settings.ADMIN_CHAT_ID
IsAdmin(sender_id) == config.admin # NoStr /\ sender_id = config.admin

\* the chain of tests of _handle_commands on cmd = text.lower().strip() and text.strip()
Branch(cmd, stripped, sender_id, is_group) ==
    LET parts == SplitMax1(stripped)
    IN  IF cmd = Cmd.ai_on THEN "ai_on"
        ELSE IF cmd = Cmd.ai_off THEN "ai_off"
        ELSE IF cmd = Cmd.reset THEN "reset"
        ELSE IF cmd = Cmd.help THEN "help"
        ELSE IF cmd = Cmd.transcribe THEN "transcribe"
        ELSE IF cmd = Cmd.stats THEN "stats"
        ELSE IF cmd = Cmd.model \/ StartsWith(cmd, Cmd.model_sp)
             THEN IF Len(parts) = 1 THEN "model_list" ELSE "model_set"
        ELSE IF StartsWith(cmd, Cmd.search_sp) \/ cmd = Cmd.search
             THEN IF Len(parts) < 2 THEN "search_usage" ELSE "search"
        ELSE IF StartsWith(cmd, Cmd.draw_sp) \/ cmd = Cmd.draw
             THEN IF Len(parts) < 2 THEN "draw_usage" ELSE "draw"
        ELSE IF cmd = Cmd.summary
             THEN IF ~is_group THEN "summary_private" ELSE "summary"
        ELSE IF IsAdmin(sender_id) /\ StartsWith(stripped, Cmd.ban_sp)
             THEN IF Strip(From(stripped, 5)) # NoStr THEN "ban" ELSE "ban_empty"
        ELSE IF IsAdmin(sender_id) /\ StartsWith(stripped, Cmd.unban_sp)
             THEN IF Strip(From(stripped, 7)) # NoStr THEN "unban" ELSE "unban_empty"
        ELSE IF IsAdmin(sender_id) /\ cmd = Cmd.blacklist THEN "blacklist"
        ELSE "none"

\* a text with the command prefix that matches no branch is answered with the help text
CommandOfSlashHelp(text, sender_id, is_group) ==
    IF /\ StartsWith(Strip(text), <<"/">>)
       /\ Branch(Lower(Strip(text)), Strip(text), sender_id, is_group) = "none"
    THEN "help"
    ELSE Branch(Lower(Strip(text)), Strip(text), sender_id, is_group)

\* the branch of _handle_commands a text takes
CommandOf(text, sender_id, is_group) ==
    CHOOSE branch \in {Branch(cmd, stripped, sender_id, is_group) :
                          cmd \in {Lower(Strip(text))}, stripped \in {Strip(text)}} : TRUE

\* the argument a command works on: parts[1] or the ban target
CommandArg(text, cmd) ==
    LET parts == SplitMax1(Strip(text))
    IN  CASE cmd = "model_set" -> Strip(parts[2])
          [] cmd \in {"search", "draw"} -> parts[2]
          [] cmd = "ban" -> Strip(From(Strip(text), 5))
          [] cmd = "unban" -> Strip(From(Strip(text), 7))
          [] OTHER -> NoStr

\* /help is not matched and the text goes on to the conversational turn
FirstCallHelpFalls(cmd, is_group) ==
    CASE cmd \in {"ai_on", "ai_off"} -> "set_ai_enabled"
      [] cmd = "reset" -> "clear_history"
      [] cmd = "transcribe" -> "get_transcribe_mode"
      [] cmd = "stats" -> "stats_get_history"
      [] cmd \in {"model_list", "model_set"} -> "get_available_models"
      [] cmd = "search" -> "search_notice"
      [] cmd = "draw" -> "draw_notice"
      [] cmd = "summary" -> "summary_notice"
      [] cmd = "ban" -> "add_to_blacklist"
      [] cmd = "unban" -> "remove_from_blacklist"
      [] cmd = "blacklist" -> "get_blacklist"
      [] cmd \in {"ban_empty", "unban_empty"} -> "done"
      [] cmd \in {"none", "help"} -> IF is_group THEN "add_group_message" ELSE "get_history"
      [] OTHER -> "reply"

\* the first call of each branch; "reply" is the branch's last send_message
FirstCall(cmd, is_group) ==
    CASE cmd \in {"ai_on", "ai_off"} -> "set_ai_enabled"
      [] cmd = "reset" -> "clear_history"
      [] cmd = "transcribe" -> "get_transcribe_mode"
      [] cmd = "stats" -> "stats_get_history"
      [] cmd \in {"model_list", "model_set"} -> "get_available_models"
      [] cmd = "search" -> "search_notice"
      [] cmd = "draw" -> "draw_notice"
      [] cmd = "summary" -> "summary_notice"
      [] cmd = "ban" -> "add_to_blacklist"
      [] cmd = "unban" -> "remove_from_blacklist"
      [] cmd = "blacklist" -> "get_blacklist"
      [] cmd \in {"ban_empty", "unban_empty"} -> "done"
      [] cmd = "none" -> IF is_group THEN "add_group_message" ELSE "get_history"
      [] OTHER -> "reply"

\* the text of the one message a branch sends without looking anything up
FixedReply(cmd) ==
    CASE cmd = "ai_on" -> "ai_on"
      [] cmd = "ai_off" -> "ai_off"
      [] cmd = "reset" -> "reset"
      [] cmd = "help" -> "help"
      [] cmd = "search_usage" -> "search_usage"
      [] cmd = "draw_usage" -> "draw_usage"
      [] cmd = "summary_private" -> "summary_groups_only"
      [] cmd = "ban" -> "banned"
      [] cmd = "unban" -> "unbanned"
      [] OTHER -> ""

\* worker.py 98-109: the run ends on an empty text, else the text goes to _handle_commands
Dispatch(r, cmd) ==
    LET first == FirstCall(cmd, IsGroup(r.ev.chat))
        r1 == [r EXCEPT !.cmd = cmd, !.arg = CommandArg(r.text, cmd),
                        !.msg = FixedReply(cmd), !.pc = first]
    IN  IF first = "done" THEN Finish(r1) ELSE r1

\* the handling without the return on an empty text
AfterExtractNoReturn(r) ==
    CHOOSE next \in {Dispatch(r, cmd) :
                        cmd \in {CommandOf(r.text, r.ev.sender, IsGroup(r.ev.chat))}} : TRUE

AfterExtract(r) ==
    IF r.text = NoStr THEN Finish(r)
    ELSE CHOOSE next \in {Dispatch(r, cmd) :
                             cmd \in {CommandOf(r.text, r.ev.sender, IsGroup(r.ev.chat))}} : TRUE

\* fixed texts of handlers.py
NoVoiceText == <<"(could not get the voice message)">>
NotRecognisedText == <<"(could not recognise the voice message)">>
ImageText == <<"User sent an image.">>
ImageCaptionText(caption) == <<"User sent an image. Caption: ">> \o caption
QuoteLabel == <<"[quoted message]: ">>
QuotedText == <<"earlier text">>
\* the label without the name of the sender
VoiceLabelAnonymous(sender_name) == <<"[voice message]: ">>

VoiceLabel(sender_name) == <<"[voice message from ">> \o sender_name \o <<"]: ">>
VoicePlain == <<"[voice message]">>
VoiceNoUrl == <<"[voice message - URL unavailable]">>
VoiceNotRecognised == <<"[voice message - not recognised]">>
Transcription == <<"spoken words">>
\* senderName of a fetched message, and the default when the message carries none
OriginalSender == <<"Bob">>
SomebodyName == <<"Somebody">>

\* files under settings.MEDIA_DIR
AudioFile == "voice.ogg"
ImageFile == "image.jpg"
QuotedFile == "quoted.ogg"

\* a button without an action of its own is handled as a message with the button's text
ButtonActionAsMessage(r) ==
    CASE r.ev.button = "btn_reset" ->
           [r EXCEPT !.cmd = "btn_reset", !.msg = "reset", !.pc = "clear_history"]
      [] r.ev.button = "btn_help" ->
           [r EXCEPT !.cmd = "btn_help", !.msg = "help", !.pc = "send_help_with_buttons"]
      [] r.ev.button = "btn_transcribe" ->
           [r EXCEPT !.cmd = "btn_transcribe", !.pc = "get_transcribe_mode"]
      [] r.ev.button = "btn_ai_on" ->
           [r EXCEPT !.cmd = "btn_ai_on", !.msg = "ai_on", !.pc = "set_ai_enabled"]
      [] r.ev.button = "btn_ai_off" ->
           [r EXCEPT !.cmd = "btn_ai_off", !.msg = "ai_off", !.pc = "set_ai_enabled"]
      [] OTHER -> AfterExtract([r EXCEPT !.text = r.ev.text])

\* _handle_button_action: the branch on button_id
ButtonAction(r) ==
    CASE r.ev.button = "btn_reset" ->
           [r EXCEPT !.cmd = "btn_reset", !.msg = "reset", !.pc = "clear_history"]
      [] r.ev.button = "btn_help" ->
           [r EXCEPT !.cmd = "btn_help", !.msg = "help", !.pc = "send_help_with_buttons"]
      [] r.ev.button = "btn_transcribe" ->
           [r EXCEPT !.cmd = "btn_transcribe", !.pc = "get_transcribe_mode"]
      [] r.ev.button = "btn_ai_on" ->
           [r EXCEPT !.cmd = "btn_ai_on", !.msg = "ai_on", !.pc = "set_ai_enabled"]
      [] r.ev.button = "btn_ai_off" ->
           [r EXCEPT !.cmd = "btn_ai_off", !.msg = "ai_off", !.pc = "set_ai_enabled"]
      [] OTHER -> Finish(r)

\* _process_quoted_message, up to its first gateway call
ProcessQuoted(r) ==
    IF r.ev.quoted \in {"audioMessage", "voiceMessage"} THEN [r EXCEPT !.pc = "get_message"]
    ELSE IF r.ev.quoted \in {"textMessage", "extendedTextMessage"}
         THEN AfterExtract([r EXCEPT !.quoted = QuoteLabel \o QuotedText])
    ELSE AfterExtract(r)

\* worker.py 72-96: the branch on typeMessage, up to the first call of the handler
Extract(r) ==
    CASE r.ev.type = "textMessage" -> AfterExtract([r EXCEPT !.text = r.ev.text])
      [] r.ev.type \in {"extendedTextMessage", "quotedMessage"} ->
           ProcessQuoted([r EXCEPT !.text = r.ev.text])
      [] r.ev.type \in {"audioMessage", "voiceMessage"} ->
           IF ~r.ev.url THEN AfterExtract([r EXCEPT !.text = NoVoiceText])
           ELSE [r EXCEPT !.file = AudioFile, !.pc = "download"]
      [] r.ev.type = "imageMessage" ->
           IF ~r.ev.url THEN AfterExtract([r EXCEPT !.text = ImageText])
           ELSE [r EXCEPT !.file = ImageFile, !.pc = "download"]
      [] r.ev.type = "buttonsResponseMessage" ->
           IF r.ev.button # "" THEN ButtonAction(r) ELSE AfterExtract(r)
      [] OTHER -> AfterExtract(r)

(***************************************************************************)
(* Tasks.                                                                  *)
(***************************************************************************)
\* the number of events the worker processes after it starts
MaxEvents == 1

At(w, pcs) == run[w].pc \in pcs

\* the number of events the worker is given where the claim is about the events after a
\* failed one
MaxFaultEvents == 2

\* the worker takes a task, while it has taken fewer than limit:
\* _process_message_async(event_data) begins
Take(w, ev, limit) ==
    /\ run[w].pc \in {"idle", "done"}
    /\ events < limit
    /\ events' = events + 1
    /\ run' = [run EXCEPT ![w] = [IdleRun EXCEPT !.pc = "is_blacklisted", !.ev = ev]]
    /\ UNCHANGED <<config, history, chat_settings, blacklist, files>>
    /\ UNCHANGED webVars

Start(w, ev) == Take(w, ev, MaxEvents)

\* an exception ends the worker process: no task is taken after it
TaskFailedFatal(r) == [Finish(r) EXCEPT !.pc = "crashed"]

\* worker.py 35-41: process_message catches every exception of the task and logs it
TaskFailed(r) == Finish(r)

\* a failed select counts as listed: the gate fails closed
is_blacklisted_closed(user_id, ok) == ~ok \/ user_id \in blacklist

\* the gate lets everybody through
is_blacklisted_never(user_id, ok) == FALSE

\* context_service.is_blacklisted(user_id): a row for the user exists; False when the select fails
is_blacklisted(user_id, ok) == ok /\ user_id \in blacklist

\* the admin is let through without a lookup result being applied
IsBlacklistedAdminExempt(w) ==
    /\ At(w, {"is_blacklisted"})
    /\ \E listed \in {IF run[w].ev.sender \in blacklist THEN "listed" ELSE "absent"} :
       \E ok \in IF listed = "listed" THEN BOOLEAN ELSE {TRUE} :
         \E r \in {LogOp(run[w], "is_blacklisted", listed, ok)} :
             run' = [run EXCEPT ![w] =
                       IF is_blacklisted(r.ev.sender, ok) /\ ~IsAdmin(r.ev.sender)
                       THEN Finish(r) ELSE Extract(r)]
    /\ UNCHANGED <<config, history, chat_settings, blacklist, files, events>>
    /\ UNCHANGED webVars

\* worker.py 60-63: the blacklist gate; the log keeps whether the sender was listed. A
\* select that fails gives False, which for a sender without a row is what it gives anyway,
\* so the failure is drawn for listed senders only
IsBlacklisted(w) ==
    /\ At(w, {"is_blacklisted"})
    /\ \E listed \in {IF run[w].ev.sender \in blacklist THEN "listed" ELSE "absent"} :
       \E ok \in IF listed = "listed" THEN BOOLEAN ELSE {TRUE} :
         \E r \in {LogOp(run[w], "is_blacklisted", listed, ok)} :
             run' = [run EXCEPT ![w] =
                       IF is_blacklisted(r.ev.sender, ok) THEN Finish(r) ELSE Extract(r)]
    /\ UNCHANGED <<config, history, chat_settings, blacklist, files, events>>
    /\ UNCHANGED webVars

\* the branch sends its reply but does not return: the text goes on to the turn
ReplyNoReturn(w) ==
    /\ At(w, {"reply"})
    /\ run' = [run EXCEPT ![w] =
                 [Called(run[w], "send_message", run[w].msg)
                     EXCEPT !.pc = IF IsGroup(run[w].ev.chat) THEN "add_group_message" ELSE "get_history"]]
    /\ UNCHANGED <<config, history, chat_settings, blacklist, files, events>>
    /\ UNCHANGED webVars

\* green_api.send_message(chat_id, message) as the last call of a command branch
Reply(w) ==
    /\ At(w, {"reply"})
    /\ run' = [run EXCEPT ![w] = Finish(Called(run[w], "send_message", run[w].msg))]
    /\ UNCHANGED <<config, history, chat_settings, blacklist, files, events>>
    /\ UNCHANGED webVars

(***************************************************************************)
(* Command branches of _handle_commands.                                   *)
(***************************************************************************)
\* what each persistence call leaves alone
Keep(vs) == UNCHANGED vs /\ UNCHANGED webVars

\* context_service.set_ai_enabled(chat_id, enabled); a failed upsert is only logged
SetAiEnabled(w) ==
    /\ At(w, {"set_ai_enabled"})
    /\ \E ok \in BOOLEAN :
         LET r == run[w]
             enabled == r.cmd \in {"ai_on", "btn_ai_on"}
         IN  /\ chat_settings' = IF ok THEN [chat_settings EXCEPT ![r.ev.chat].ai_enabled = enabled]
                                 ELSE chat_settings
             /\ run' = [run EXCEPT ![w] =
                          [LogOp(r, "set_ai_enabled", IF enabled THEN "on" ELSE "off", ok)
                              EXCEPT !.pc = "reply"]]
    /\ Keep(<<config, history, blacklist, files, events>>)

\* the delete removes nothing
clear_history_kept(chat_id, ok) == history

\* context_service.clear_history(chat_id): deletes the chat's rows; a failed delete is only logged
clear_history(chat_id, ok) == IF ok THEN [history EXCEPT ![chat_id] = <<>>] ELSE history

\* clear_history, then clear_group_messages, which does nothing
ClearHistory(w) ==
    /\ At(w, {"clear_history"})
    /\ \E ok \in BOOLEAN :
         LET r == run[w]
         IN  /\ history' = clear_history(r.ev.chat, ok)
             /\ run' = [run EXCEPT ![w] = [LogOp(r, "clear_history", "", ok) EXCEPT !.pc = "reply"]]
    /\ Keep(<<config, chat_settings, blacklist, files, events>>)

\* current = await context_service.get_transcribe_mode(chat_id); False when the select fails
GetTranscribeMode(w) ==
    /\ At(w, {"get_transcribe_mode"})
    /\ \E ok \in BOOLEAN :
         LET flag == chat_settings[run[w].ev.chat].transcribe_mode
             r == LogOp(run[w], "get_transcribe_mode", IF flag THEN "on" ELSE "off", ok)
             current == ok /\ flag
         IN  run' = [run EXCEPT ![w] =
                       [r EXCEPT !.cur = current, !.pc = "set_transcribe_mode"]]
    /\ Keep(<<config, history, chat_settings, blacklist, files, events>>)

\* context_service.set_transcribe_mode(chat_id, not current) and the message that reports it
SetTranscribeMode(w) ==
    /\ At(w, {"set_transcribe_mode"})
    /\ \E ok \in BOOLEAN :
         LET r == run[w]
         IN  /\ chat_settings' = IF ok THEN [chat_settings EXCEPT ![r.ev.chat].transcribe_mode = ~r.cur]
                                 ELSE chat_settings
             /\ run' = [run EXCEPT ![w] =
                          [LogOp(r, "set_transcribe_mode", IF ~r.cur THEN "on" ELSE "off", ok)
                              EXCEPT !.msg = IF ~r.cur THEN "transcribe_on" ELSE "transcribe_off",
                                     !.pc = "reply"]]
    /\ Keep(<<config, history, blacklist, files, events>>)

HISTORY_LIMIT == 20

\* the last n elements of a sequence
LastN(rows, n) == IF Len(rows) <= n THEN rows ELSE SubSeq(rows, Len(rows) - n + 1, Len(rows))

\* order by created_at desc, limit: the newest n rows, newest first
NewestFirst(rows, n) == [i \in 1..Len(LastN(rows, n)) |-> rows[Len(rows) - i + 1]]

\* the rows stay in the order the select returned them
NotReversed(rows) == rows

\* response.data[::-1]
Reversed(rows) == [i \in 1..Len(rows) |-> rows[Len(rows) - i + 1]]

\* context_service.get_history(chat_id): [] when the select fails
get_history(chat_id, ok) == IF ok THEN Reversed(NewestFirst(history[chat_id], HISTORY_LIMIT)) ELSE <<>>

\* the content of an LLM message: a plain string, or a dict with text and files
StrContent(text) == [kind |-> "str", text |-> text, files |-> <<>>]
DictContent(text, fs) == [kind |-> "dict", text |-> text, files |-> fs]

QuestionSeparator == <<"\n\n", "<user question>: ">>

\* the current turn is put in front of the history rows, the quoted context behind the text
LlmMessagesCurrentFirst(r, hist) ==
    LET base == IF r.media THEN DictContent(r.caption, <<r.file>>) ELSE StrContent(r.text)
        current == IF r.quoted # NoStr
                   THEN [base EXCEPT !.text = @ \o QuestionSeparator \o r.quoted]
                   ELSE base
    IN  <<[role |-> "user", content |-> current]>>
        \o [i \in 1..Len(hist) |-> [role |-> hist[i].role, content |-> StrContent(hist[i].content)]]

\* worker.py 124-135: history rows, then the current turn with the quoted context in front
LlmMessages(r, hist) ==
    LET base == IF r.media THEN DictContent(r.caption, <<r.file>>) ELSE StrContent(r.text)
        current == IF r.quoted # NoStr
                   THEN [base EXCEPT !.text = r.quoted \o QuestionSeparator \o @]
                   ELSE base
    IN  [i \in 1..Len(hist) |-> [role |-> hist[i].role, content |-> StrContent(hist[i].content)]]
        \o <<[role |-> "user", content |-> current]>>

GetHistory(w) ==
    /\ At(w, {"stats_get_history", "get_history"})
    /\ \E ok \in BOOLEAN :
         LET r == run[w]
             hist == get_history(r.ev.chat, ok)
         IN  run' = [run EXCEPT ![w] =
                       IF r.pc = "stats_get_history"
                       THEN [r EXCEPT !.hist = hist, !.pc = "stats_get_model"]
                       ELSE [r EXCEPT !.prompt = LlmMessages(r, hist), !.pc = "get_model"]]
    /\ Keep(<<config, history, chat_settings, blacklist, files, events>>)

\* llm_service.get_available_models(): the provider's list, or the fallback list
AvailableModels == {OPENROUTER_MODEL, OtherModel}

\* every name is taken for a model
IsAvailableAny(new_model) == TRUE

\* worker.py 293: if new_model in available_models
IsAvailable(new_model) == new_model \in AvailableModels

\* context_service.get_model(chat_id): the chat's preferred model, None when it has none
get_model(chat_id) == chat_settings[chat_id].model

GetModel(w) ==
    /\ At(w, {"stats_get_model", "model_get_model", "search_get_model", "draw_get_model",
              "summary_get_model", "get_model"})
    /\ LET r == [run[w] EXCEPT !.model = get_model(run[w].ev.chat)]
       IN  run' = [run EXCEPT ![w] =
             CASE r.pc = "stats_get_model" -> [r EXCEPT !.msg = "stats", !.pc = "reply"]
               [] r.pc = "model_get_model" ->
                    IF r.cmd = "model_list" THEN [r EXCEPT !.msg = "model_list", !.pc = "reply"]
                    ELSE IF IsAvailable(r.arg) THEN [r EXCEPT !.pc = "set_model"]
                    ELSE [r EXCEPT !.msg = "model_not_found", !.pc = "reply"]
               [] r.pc = "search_get_model" -> [r EXCEPT !.pc = "search_and_summarize"]
               [] r.pc = "draw_get_model" -> [r EXCEPT !.pc = "generate_image"]
               [] r.pc = "summary_get_model" -> [r EXCEPT !.pc = "summary_llm"]
               [] OTHER -> [r EXCEPT !.pc = "llm"]]
    /\ Keep(<<config, history, chat_settings, blacklist, files, events>>)

GetAvailableModels(w) ==
    /\ At(w, {"get_available_models"})
    /\ run' = [run EXCEPT ![w].pc = "model_get_model"]
    /\ Keep(<<config, history, chat_settings, blacklist, files, events>>)

\* context_service.set_model(chat_id, new_model): the chat's preferred model from now on
set_model(chat_id, new_model) == [chat_settings EXCEPT ![chat_id].model = new_model]

SetModel(w) ==
    /\ At(w, {"set_model"})
    /\ LET r == run[w]
       IN  /\ chat_settings' = set_model(r.ev.chat, r.arg)
           /\ run' = [run EXCEPT ![w] =
                        [LogOp(r, "set_model", "", TRUE) EXCEPT !.msg = "model_changed", !.pc = "reply"]]
    /\ Keep(<<config, history, blacklist, files, events>>)

\* the progress message a long command sends before it works
Notice(w) ==
    /\ At(w, {"search_notice", "draw_notice", "summary_notice"})
    /\ LET r == Called(run[w], "send_message", run[w].pc)
       IN  run' = [run EXCEPT ![w] =
             CASE r.pc = "search_notice" -> [r EXCEPT !.pc = "search_get_model"]
               [] r.pc = "draw_notice" -> [r EXCEPT !.pc = "draw_get_model"]
               [] OTHER -> [r EXCEPT !.pc = "get_chat_history"]]
    /\ Keep(<<config, history, chat_settings, blacklist, files, events>>)

\* search_and_summarize(query, model): with results it asks the LLM for a summary,
\* without it returns the nothing-found text; it never raises
SearchAndSummarize(w) ==
    /\ At(w, {"search_and_summarize"})
    /\ \E found \in BOOLEAN :
         LET r == LogOp(run[w], "search_and_summarize", "", found)
             r1 == IF found THEN LogOp(r, "helper_llm", "search", TRUE) ELSE r
         IN  run' = [run EXCEPT ![w] = [r1 EXCEPT !.msg = "search_result", !.pc = "reply"]]
    /\ Keep(<<config, history, chat_settings, blacklist, files, events>>)

ArtFile == "pollinations.png"

\* generate_image(prompt, llm_model): enhances the prompt with the LLM, then saves the
\* picture under MEDIA_DIR or returns no path
GenerateImage(w) ==
    /\ At(w, {"generate_image"})
    /\ \E made \in BOOLEAN :
         LET r == LogOp(LogOp(run[w], "helper_llm", "enhance_prompt", TRUE), "generate_image", "", made)
         IN  /\ files' = IF made THEN files \cup {ArtFile} ELSE files
             /\ run' = [run EXCEPT ![w] =
                          IF made THEN [r EXCEPT !.file = ArtFile, !.pc = "send_file_by_upload"]
                          ELSE [r EXCEPT !.msg = "draw_failed", !.pc = "reply"]]
    /\ Keep(<<config, history, chat_settings, blacklist, events>>)

\* green_api.send_file_by_upload, then os.remove(file_path), then the failure message
SendFileByUpload(w) ==
    /\ At(w, {"send_file_by_upload"})
    /\ \E result \in BOOLEAN :
         LET r == LogOp(run[w], "send_file_by_upload", "art", result)
         IN  /\ files' = files \ {r.file}
             /\ run' = [run EXCEPT ![w] =
                          IF ~result THEN [r EXCEPT !.msg = "upload_failed", !.pc = "reply"]
                          ELSE Finish(r)]
    /\ Keep(<<config, history, chat_settings, blacklist, events>>)

\* _handle_summary_command: green_api.get_chat_history and the formatting of its messages
GetChatHistory(w) ==
    /\ At(w, {"get_chat_history"})
    /\ \E got \in {"none", "unformattable", "messages"} :
         LET r == run[w]
         IN  run' = [run EXCEPT ![w] =
                       IF got = "messages" THEN [r EXCEPT !.pc = "summary_get_model"]
                       ELSE [r EXCEPT !.msg = "summary_empty", !.pc = "reply"]]
    /\ Keep(<<config, history, chat_settings, blacklist, files, events>>)

\* context_service.add_to_blacklist(target)
AddToBlacklist(w) ==
    /\ At(w, {"add_to_blacklist"})
    /\ \E ok \in BOOLEAN :
         LET r == run[w]
         IN  /\ blacklist' = IF ok THEN blacklist \cup {r.arg} ELSE blacklist
             /\ run' = [run EXCEPT ![w] = [LogOp(r, "add_to_blacklist", "", ok) EXCEPT !.pc = "reply"]]
    /\ Keep(<<config, history, chat_settings, files, events>>)

\* context_service.remove_from_blacklist(target)
RemoveFromBlacklist(w) ==
    /\ At(w, {"remove_from_blacklist"})
    /\ \E ok \in BOOLEAN :
         LET r == run[w]
         IN  /\ blacklist' = IF ok THEN blacklist \ {r.arg} ELSE blacklist
             /\ run' = [run EXCEPT ![w] = [LogOp(r, "remove_from_blacklist", "", ok) EXCEPT !.pc = "reply"]]
    /\ Keep(<<config, history, chat_settings, files, events>>)

\* bl = await context_service.get_blacklist(): {} when the select fails
GetBlacklist(w) ==
    /\ At(w, {"get_blacklist"})
    /\ \E ok \in BOOLEAN :
         LET r == run[w]
             bl == IF ok THEN blacklist ELSE {}
         IN  run' = [run EXCEPT ![w] =
                       [r EXCEPT !.msg = IF bl # {} THEN "blacklist_list" ELSE "blacklist_empty",
                                 !.pc = "reply"]]
    /\ Keep(<<config, history, chat_settings, blacklist, files, events>>)

(***************************************************************************)
(* The conversational turn: group capture, trigger policy, LLM, history.   *)
(***************************************************************************)
WordChars == {"a", "b", "c", "d", "e", "f", "g", "h", "i", "j", "k", "l", "m", "n", "o", "p",
              "q", "r", "s", "t", "u", "v", "w", "x", "y", "z", "0", "1", "2", "3", "4", "5",
              "6", "7", "8", "9", "_"}

IsWordChar(ch) == LowerChar(ch) \in WordChars

\* re.search(rf'\b{word}\b', str) for a word that begins and ends with word characters
WordSearch(str, word) ==
    \E i \in 1..Len(str) :
        /\ OccursAt(str, word, i)
        /\ i = 1 \/ ~IsWordChar(str[i - 1])
        /\ i + Len(word) > Len(str) \/ ~IsWordChar(str[i + Len(word)])

\* only the flag decides: the nickname is not looked for
ShouldReplyInGroupFlagOnly(text, is_enabled) == is_enabled

\* _should_reply_in_group once is_ai_enabled has answered
ShouldReplyInGroup(text, is_enabled) ==
    LET msg_lower == Lower(text)
        bot_nickname == Lower(BOT_NICKNAME)
        is_triggered == \/ WordSearch(msg_lower, bot_nickname)
                        \/ StartsWith(msg_lower, bot_nickname \o <<" ">>)
                        \/ StartsWith(msg_lower, bot_nickname \o <<",">>)
    IN  is_enabled \/ is_triggered

\* the marker handle_audio_message puts in front of a transcription
TextMarker == "Text:"
VoiceReport(transcription) == <<"User sent a voice message. ", TextMarker, " ">> \o transcription

\* text_content.split(marker)[-1].strip()
AfterLastMarker(text) ==
    LET last == CHOOSE i \in DOMAIN text :
                    text[i] = TextMarker /\ \A j \in (i + 1)..Len(text) : text[j] # TextMarker
    IN  Strip(From(text, last))

\* worker.py 113-115
ContentToStore(r) ==
    IF r.ev.type \in {"audioMessage", "voiceMessage"} /\ \E i \in DOMAIN r.text : r.text[i] = TextMarker
    THEN AfterLastMarker(r.text)
    ELSE r.text

Row(role, content) == [role |-> role, content |-> content]

\* the message is not captured: the run goes straight to the trigger check
AddGroupMessageSkipped(w) ==
    /\ At(w, {"add_group_message"})
    /\ run' = [run EXCEPT ![w].pc = "is_ai_enabled"]
    /\ Keep(<<config, history, chat_settings, blacklist, files, events>>)

\* context_service.add_group_message(chat_id, sender_name, content_to_store)
AddGroupMessage(w) ==
    /\ At(w, {"add_group_message"})
    /\ \E ok \in BOOLEAN :
         LET r == run[w]
             full_content == SenderName(r.ev.sender) \o <<":", " ">> \o ContentToStore(r)
         IN  /\ history' = IF ok THEN [history EXCEPT ![r.ev.chat] = Append(@, Row("user", full_content))]
                           ELSE history
             /\ run' = [run EXCEPT ![w] =
                          [LogOp(r, "add_group_message", "", ok) EXCEPT !.pc = "is_ai_enabled"]]
    /\ Keep(<<config, chat_settings, blacklist, files, events>>)

\* _should_reply_in_group: context_service.is_ai_enabled, False when the select fails
IsAiEnabled(w) ==
    /\ At(w, {"is_ai_enabled"})
    /\ \E ok \in BOOLEAN :
         LET flag == chat_settings[run[w].ev.chat].ai_enabled
             r == LogOp(run[w], "is_ai_enabled", IF flag THEN "on" ELSE "off", ok)
             is_enabled == ok /\ flag
         IN  run' = [run EXCEPT ![w] =
                       IF ShouldReplyInGroup(r.text, is_enabled) THEN [r EXCEPT !.pc = "get_history"]
                       ELSE Finish(r)]
    /\ Keep(<<config, history, chat_settings, blacklist, files, events>>)

\* what the provider answers, and what get_response returns when the call raises
LlmAnswer == <<"answer">>
LlmError == <<"model error, try /model">>

\* the preference is ignored
UseModelDefault(model) == OPENROUTER_MODEL

\* use_model = model or self.default_model
UseModel(model) == IF model # NoStr THEN model ELSE OPENROUTER_MODEL

\* llm_service.get_response(messages, model): an exception becomes the error text
LlmGetResponse(w) ==
    /\ At(w, {"llm", "summary_llm"})
    /\ \E ok \in BOOLEAN :
         LET r == run[w]
             r1 == LogOp(r, "llm_get_response", IF r.pc = "llm" THEN "turn" ELSE "summary", ok)
         IN  run' = [run EXCEPT ![w] =
                       IF r.pc = "llm"
                       THEN [r1 EXCEPT !.resp = IF ok THEN LlmAnswer ELSE LlmError,
                                       !.used = UseModel(r.model), !.pc = "add_user"]
                       ELSE [r1 EXCEPT !.msg = "summary", !.pc = "reply"]]
    /\ Keep(<<config, history, chat_settings, blacklist, files, events>>)

\* the answer is written before the text it answers
TurnRoleAnswerFirst(pc) == IF pc = "add_user" THEN "assistant" ELSE "user"

\* worker.py 144-145: the first add_message of a turn writes the user row, the second the
\* assistant row
TurnRole(pc) == IF pc = "add_user" THEN "user" ELSE "assistant"

\* context_service.add_message(chat_id, role, content); a failed insert is only logged
AddMessage(w) ==
    /\ At(w, {"add_user", "add_assistant"})
    /\ \E ok \in BOOLEAN :
         LET r == run[w]
             role == TurnRole(r.pc)
             content == IF role = "user" THEN r.text ELSE r.resp
         IN  /\ history' = IF ok THEN [history EXCEPT ![r.ev.chat] = Append(@, Row(role, content))]
                           ELSE history
             /\ run' = [run EXCEPT ![w] =
                          [LogOp(r, "add_message", role, ok)
                              EXCEPT !.pc = IF r.pc = "add_user" THEN "add_assistant" ELSE "send_response"]]
    /\ Keep(<<config, chat_settings, blacklist, files, events>>)

\* green_api.send_message(chat_id, response_text): a failed request is logged and gives None
SendResponse(w) ==
    /\ At(w, {"send_response"})
    /\ \E ok \in BOOLEAN :
         run' = [run EXCEPT ![w] =
                   [LogOp(run[w], "send_message",
                          IF run[w].resp = LlmAnswer THEN "answer" ELSE "llm_error", ok)
                       EXCEPT !.pc = "remove_media"]]
    /\ Keep(<<config, history, chat_settings, blacklist, files, events>>)

\* worker.py 151-152: if has_media and file_path and os.path.exists(file_path): os.remove(file_path)
RemoveMedia(w) ==
    /\ At(w, {"remove_media"})
    /\ LET r == run[w]
           has_file == r.media /\ r.file # "" /\ r.file \in files
       IN  /\ files' = IF has_file THEN files \ {r.file} ELSE files
           /\ run' = [run EXCEPT ![w] =
                        IF has_file THEN Finish(Called(r, "os_remove", r.file)) ELSE Finish(r)]
    /\ Keep(<<config, history, chat_settings, blacklist, events>>)

(***************************************************************************)
(* The handlers of src/handlers.py that call the gateway or the STT.       *)
(***************************************************************************)
\* green_api.get_message(chat_id, stanza_id) in _transcribe_quoted_audio
GetMessage(w) ==
    /\ At(w, {"get_message"})
    /\ \E got \in {"none", "no_url", "url"}, sender_name \in {OriginalSender, SomebodyName} :
         \E r \in {Called(run[w], "get_message", got)} :
             run' = [run EXCEPT ![w] =
               CASE got = "none" -> AfterExtract([r EXCEPT !.quoted = VoicePlain])
                 [] got = "no_url" -> AfterExtract([r EXCEPT !.quoted = VoiceNoUrl])
                 [] OTHER -> [r EXCEPT !.orig = sender_name, !.file = QuotedFile, !.pc = "download"]]
    /\ Keep(<<config, history, chat_settings, blacklist, files, events>>)

\* green_api.download_file(url, file_path): the file is written unless the request fails
Download(w) ==
    /\ At(w, {"download"})
    /\ \E ok \in BOOLEAN, r \in {Called(run[w], "download_file", "")}, caption \in {run[w].ev.text} :
             /\ files' = IF ok THEN files \cup {r.file} ELSE files
             /\ run' = [run EXCEPT ![w] =
                          IF r.ev.type = "imageMessage"
                          THEN AfterExtract([r EXCEPT !.caption = caption, !.media = TRUE,
                                                      !.text = ImageCaptionText(caption)])
                          ELSE [r EXCEPT !.pc = "transcribe"]]
    /\ Keep(<<config, history, chat_settings, blacklist, events>>)

\* stt.transcribe(file_path) and the os.remove that follows it; "" when the file is
\* missing or the provider fails, an exception when the conversion cannot start
Transcribe(w) ==
    /\ At(w, {"transcribe"})
    /\ \E got \in {"text", "empty", "raise"} :
       \E r \in {Called(run[w], "transcribe", got)},
          is_quoted \in {run[w].ev.type \in {"extendedTextMessage", "quotedMessage"}} :
             /\ r.file \notin files => got = "empty"
             /\ files' = IF got = "raise" THEN files ELSE files \ {r.file}
             /\ run' = [run EXCEPT ![w] =
                  IF is_quoted
                  THEN AfterExtract([r EXCEPT !.quoted =
                           CASE got = "text" -> VoiceLabel(r.orig) \o Transcription
                             [] got = "empty" -> VoiceNotRecognised
                             [] OTHER -> VoicePlain])
                  ELSE CASE got = "text" -> [r EXCEPT !.heard = Transcription,
                                                      !.pc = "audio_get_transcribe_mode"]
                         [] got = "empty" -> AfterExtract([r EXCEPT !.text = NotRecognisedText])
                         [] OTHER -> TaskFailed(r)]
    /\ Keep(<<config, history, chat_settings, blacklist, events>>)

\* handle_audio_message: transcribe_mode = await context_service.get_transcribe_mode(chat_id)
AudioTranscribeMode(w) ==
    /\ At(w, {"audio_get_transcribe_mode"})
    /\ \E ok \in BOOLEAN, flag \in {chat_settings[run[w].ev.chat].transcribe_mode} :
         LET r == LogOp(run[w], "get_transcribe_mode", IF flag THEN "on" ELSE "off", ok)
             transcribe_mode == ok /\ flag
         IN  run' = [run EXCEPT ![w] =
                       IF transcribe_mode THEN [r EXCEPT !.pc = "send_transcription"]
                       ELSE AfterExtract([r EXCEPT !.text = VoiceReport(r.heard)])]
    /\ Keep(<<config, history, chat_settings, blacklist, files, events>>)

\* the transcription is sent and the run goes on with it as its text
SendTranscriptionNoSkip(w) ==
    /\ At(w, {"send_transcription"})
    /\ \E r \in {Called(run[w], "send_message", "transcription")} :
         run' = [run EXCEPT ![w] = AfterExtract([r EXCEPT !.text = r.heard])]
    /\ Keep(<<config, history, chat_settings, blacklist, files, events>>)

\* transcribe-only mode: the transcription is sent and the run stops (should_skip)
SendTranscription(w) ==
    /\ At(w, {"send_transcription"})
    /\ run' = [run EXCEPT ![w] = Finish(Called(run[w], "send_message", "transcription"))]
    /\ Keep(<<config, history, chat_settings, blacklist, files, events>>)

\* _send_help_with_buttons(chat_id): the help text, sent once
SendHelpWithButtons(w) ==
    /\ At(w, {"send_help_with_buttons"})
    /\ run' = [run EXCEPT ![w] = Finish(Called(run[w], "send_message", "help"))]
    /\ Keep(<<config, history, chat_settings, blacklist, files, events>>)

WebInit ==
    /\ ratelimit = [c \in Chats |-> AbsentKey]
    /\ dedup = [m \in MsgIds |-> AbsentKey]
    /\ req = [s \in Slots |-> IdleReq]
    /\ arrivals = [c \in Chats |-> 0]
    /\ handed = [m \in MsgIds |-> 0]

\* the rows of chat_settings for a chat that has none yet
DefaultSettings == [ai_enabled |-> FALSE, transcribe_mode |-> FALSE, model |-> NoStr]

\* settings and tables as a first deployment finds them
Fresh ==
    [admin |-> AdminUser,
     blacklist |-> {},
     chat_settings |-> [c \in Chats |-> DefaultSettings],
     history |-> [c \in Chats |-> <<>>]]

\* the tables outlive the worker: what earlier tasks can have left in them
Stores ==
    {Fresh,
     [Fresh EXCEPT !.admin = NoStr],
     [Fresh EXCEPT !.blacklist = {Alice}],
     [Fresh EXCEPT !.blacklist = {AdminUser}],
     [Fresh EXCEPT !.chat_settings[Alice].model = OtherModel],
     [Fresh EXCEPT !.chat_settings[Alice].transcribe_mode = TRUE],
     [Fresh EXCEPT !.chat_settings[GroupChat].ai_enabled = TRUE],
     [Fresh EXCEPT !.history[Alice] = <<Row("user", Txt.hello), Row("assistant", LlmAnswer)>>]}

PipeInit(store) ==
    /\ config = [admin |-> store.admin]
    /\ history = store.history
    /\ chat_settings = store.chat_settings
    /\ blacklist = store.blacklist
    /\ files = {}
    /\ run = [w \in Workers |-> IdleRun]
    /\ events = 0

InitWebhook == WebInit /\ PipeInit(Fresh)

Init == WebInit /\ \E store \in Stores : PipeInit(store)

WebStep(s) ==
    \/ \E c \in WebChats, m \in MsgIds : Receive(s, c, m)
    \/ RlGet(s)
    \/ RlSet(s)
    \/ RlIncr(s)
    \/ DdGet(s)
    \/ DdSet(s)
    \/ Enqueue(s)
    \/ RequestFails(s)

\* deliveries arrive one after another
NextWebhookSeq ==
    \/ \E s \in SeqSlots : WebStep(s)
    \/ Tick

\* deliveries overlap
NextWebhook ==
    \/ \E s \in Slots : WebStep(s)

SpecWebhookSeq == InitWebhook /\ [][NextWebhookSeq]_vars

SpecWebhook == InitWebhook /\ [][NextWebhook]_vars

\* the longest table of chat_messages rows a chat starts with
MaxRows == 22

\* the i-th row of a long conversation: turns alternate, every content is different
NthRow(i) == Row(IF i % 2 = 1 THEN "user" ELSE "assistant", [k \in 1..i |-> "x"])

LongHistory(n) == [i \in 1..n |-> NthRow(i)]

\* a private chat that already holds up to MaxRows rows
InitHistory ==
    /\ WebInit
    /\ \E n \in 0..MaxRows : PipeInit([Fresh EXCEPT !.history[Alice] = LongHistory(n)])

\* texts whose handling reads the history: /stats and a plain message
HistoryEvents == {TextEvent(Alice, Alice, t) : t \in {Txt.stats, Txt.hello}}

NextHistory ==
    \E w \in SeqWorkers :
        \/ \E ev \in HistoryEvents : Start(w, ev)
        \/ IsBlacklisted(w)
        \/ GetHistory(w)

\* get_history applied to tables shorter and longer than its limit
SpecHistory == InitHistory /\ [][NextHistory]_vars

\* a voice note, whose conversion can raise, and a plain message
FaultEvents ==
    {Event(Alice, Alice, "audioMessage", Txt.empty, "", TRUE, ""),
     TextEvent(Alice, Alice, Txt.hello)}

FaultStep(w) ==
    \/ \E ev \in FaultEvents : Take(w, ev, MaxFaultEvents)
    \/ IsBlacklisted(w)
    \/ Download(w)
    \/ Transcribe(w)
    \/ AudioTranscribeMode(w)
    \/ SendTranscription(w)
    \/ GetHistory(w)
    \/ GetModel(w)
    \/ LlmGetResponse(w)
    \/ AddMessage(w)
    \/ SendResponse(w)
    \/ RemoveMedia(w)

NextFault == \E w \in SeqWorkers : FaultStep(w)

\* tasks one after another, some of which fail
SpecFault == Init /\ [][NextFault]_vars

\* the number of events given to the two workers that run side by side
MaxConcEvents == 2

\* events of one private chat that read and write its history and settings
ConcEvents ==
    {TextEvent(Alice, Alice, t) : t \in {Txt.hello, Txt.reset, Txt.transcribe}}
    \cup {Event(Alice, Alice, "buttonsResponseMessage", Txt.empty, "", FALSE, "btn_transcribe")}

ConcStep(w) ==
    \/ \E ev \in ConcEvents : Take(w, ev, MaxConcEvents)
    \/ IsBlacklisted(w)
    \/ ClearHistory(w)
    \/ GetTranscribeMode(w)
    \/ SetTranscribeMode(w)
    \/ Reply(w)
    \/ GetHistory(w)
    \/ GetModel(w)
    \/ LlmGetResponse(w)
    \/ AddMessage(w)
    \/ SendResponse(w)
    \/ RemoveMedia(w)

\* the worker pool runs tasks of one chat at the same time: their awaits interleave
NextConc == \E w \in Workers : ConcStep(w)

\* no request in flight, an empty store
InitConc == WebInit /\ PipeInit(Fresh)

SpecConc == InitConc /\ [][NextConc]_vars

\* one step of a task
TaskStep(w) ==
    \/ \E ev \in Events : Start(w, ev)
    \/ IsBlacklisted(w)
    \/ GetMessage(w)
    \/ Download(w)
    \/ Transcribe(w)
    \/ AudioTranscribeMode(w)
    \/ SendTranscription(w)
    \/ SendHelpWithButtons(w)
    \/ SetAiEnabled(w)
    \/ ClearHistory(w)
    \/ GetTranscribeMode(w)
    \/ SetTranscribeMode(w)
    \/ GetHistory(w)
    \/ GetAvailableModels(w)
    \/ GetModel(w)
    \/ SetModel(w)
    \/ Notice(w)
    \/ SearchAndSummarize(w)
    \/ GenerateImage(w)
    \/ SendFileByUpload(w)
    \/ GetChatHistory(w)
    \/ AddToBlacklist(w)
    \/ RemoveFromBlacklist(w)
    \/ GetBlacklist(w)
    \/ AddGroupMessage(w)
    \/ IsAiEnabled(w)
    \/ LlmGetResponse(w)
    \/ AddMessage(w)
    \/ SendResponse(w)
    \/ RemoveMedia(w)
    \/ Reply(w)

\* the worker runs one task at a time
Next == \E w \in SeqWorkers : TaskStep(w)

Spec == Init /\ [][Next]_vars

\* the events of the conversational turn in private chats: plain texts, a text that only
\* looks like a command, an admin command from somebody else, and for contrast /reset
\* and an empty text
TurnEvents ==
    {TextEvent(Alice, Alice, t) : t \in {Txt.empty, Txt.hello, Txt.unknown_cmd, Txt.ban_alice, Txt.reset}}
    \cup {TextEvent(AdminUser, AdminUser, Txt.hello)}

TurnStep(w) ==
    \/ \E ev \in TurnEvents : Start(w, ev)
    \/ IsBlacklisted(w)
    \/ ClearHistory(w)
    \/ Reply(w)
    \/ GetHistory(w)
    \/ GetModel(w)
    \/ LlmGetResponse(w)
    \/ AddMessage(w)
    \/ SendResponse(w)
    \/ RemoveMedia(w)

NextTurn == \E w \in SeqWorkers : TurnStep(w)

\* every await of a task returns (the clients carry timeouts), so a started task runs on
Running(w) == run[w].pc \notin {"idle", "done"} /\ TurnStep(w)

SpecTurn == Init /\ [][NextTurn]_vars /\ \A w \in SeqWorkers : WF_vars(Running(w))

(***************************************************************************)
(* Properties of the admission layer.                                      *)
(***************************************************************************)
\* C1: once an id has been handed to process_message and its dedup record exists,
\* no later step of sequential deliveries hands the id over again
C1_ReplayNotEnqueued ==
    [][\A m \in MsgIds : (handed[m] >= 1 /\ dedup[m].val # 0) => handed'[m] <= handed[m]]_vars

\* a replay was answered "duplicate" after the first delivery had been enqueued
C1_Witness ==
    \E s \in Slots : /\ req[s].pc = "duplicate"
                     /\ handed[req[s].id] = 1
                     /\ dedup[req[s].id].val # 0

\* C2: an id is handed to process_message at most once while its dedup record
\* lives, also when deliveries of the id overlap
C2_AtMostOnce == \A m \in MsgIds : handed[m] <= 1

\* C3: the limiter lets a delivery through exactly when fewer than
\* RATE_LIMIT_MAX_REQUESTS deliveries were let through in the chat's current window:
\* the N-th passes, the (N+1)-th is answered rate_limited
C3_NthAdmitted ==
    [][\A s \in Slots :
          (req[s].pc = "rl_get" /\ req'[s].pc \notin {"rl_get", "error"})
          => IF arrivals[req[s].chat] < RATE_LIMIT_MAX_REQUESTS
             THEN req'[s].pc \in {"rl_set", "rl_incr"}
             ELSE req'[s].pc = "rate_limited"]_vars

\* the delivery after the N-th was dropped
C3_Witness ==
    \E s \in Slots : /\ req[s].pc = "rate_limited"
                     /\ arrivals[req[s].chat] = RATE_LIMIT_MAX_REQUESTS
                     /\ ratelimit[req[s].chat].val = RATE_LIMIT_MAX_REQUESTS

\* C4: a delivery answered "duplicate" has written neither the chat's rate-limit
\* counter nor the dedup store (and it never enqueues)
C4_DuplicateNoEffects ==
    \A s \in Slots : req[s].pc = "duplicate" => (~req[s].wroteRl /\ ~req[s].wroteDd)

(***************************************************************************)
(* Properties of the pipeline.                                             *)
(***************************************************************************)
LlmOps == {"llm_get_response", "helper_llm"}
WriteOps == {"set_ai_enabled", "clear_history", "set_transcribe_mode", "set_model",
             "add_to_blacklist", "remove_from_blacklist", "add_group_message", "add_message"}

Sends(r) == Count(r.log, SendOps)

\* the conversational turn: its LLM call and its history writes
TurnCalls(r) ==
    Cardinality({i \in DOMAIN r.log :
        \/ r.log[i].op = "llm_get_response" /\ r.log[i].what = "turn"
        \/ r.log[i].op = "add_message"})

\* the sender was on the blacklist when the gate looked
Listed(r) == r.log # <<>> /\ r.log[1].what = "listed"

\* the gate stopped the run
Blocked(r) == Listed(r) /\ r.log[1].ok

\* the run got past the gate
Passed(r) == r.log # <<>> /\ ~Blocked(r)

IsResetText(ev) == ev.type = "textMessage" /\ Lower(Strip(ev.text)) = Cmd.reset

ClearedOk(r) == \E i \in DOMAIN r.log : r.log[i].op = "clear_history" /\ r.log[i].ok

TextTypes == {"textMessage", "extendedTextMessage", "quotedMessage"}

\* the command branch an event takes, "none" when it takes none
RunCommand(ev) ==
    IF ev.type \in TextTypes /\ ev.text # NoStr
    THEN CommandOf(ev.text, ev.sender, IsGroup(ev.chat))
    ELSE "none"

\* the messages a command sends: a progress notice precedes the result of search, draw
\* and summary, and a failed upload adds a failure message
CommandSends(cmd) ==
    CASE cmd \in {"search", "summary"} -> {2}
      [] cmd = "draw" -> {2, 3}
      [] cmd \in {"ban_empty", "unban_empty"} -> {0}
      [] OTHER -> {1}

IsPlainPrivateText(ev) ==
    /\ ev.type = "textMessage"
    /\ ~IsGroup(ev.chat)
    /\ ev.text # NoStr
    /\ CommandOf(ev.text, ev.sender, FALSE) = "none"

PreferredOrDefault(chat_id) ==
    IF chat_settings[chat_id].model # NoStr THEN chat_settings[chat_id].model ELSE OPENROUTER_MODEL

\* one LLM call for the turn, with the chat's model, and after it the one send
OneCallOneReply(r) ==
    /\ Cardinality({i \in DOMAIN r.log : r.log[i].op \in LlmOps}) = 1
    /\ Sends(r) = 1
    /\ r.used = PreferredOrDefault(r.ev.chat)
    /\ \E i, j \in DOMAIN r.log :
          /\ i < j
          /\ r.log[i].op = "llm_get_response" /\ r.log[i].what = "turn"
          /\ r.log[j].op = "send_message"

\* C9: a plain text of a private chat from a sender who is not listed ends, and ends
\* with exactly one LLM call, made with the preferred model or else the default,
\* followed by exactly one send
C9_TurnCompletes ==
    \A w \in SeqWorkers :
        (run[w].pc = "is_blacklisted" /\ IsPlainPrivateText(run[w].ev)
            /\ run[w].ev.sender \notin blacklist)
        ~> (run[w].pc = "done" /\ IsPlainPrivateText(run[w].ev) /\ OneCallOneReply(run[w]))

\* a chat that prefers another model than the default was answered with that model
C9_Witness ==
    \E w \in Workers : /\ run[w].pc = "done"
                       /\ IsPlainPrivateText(run[w].ev)
                       /\ ~Listed(run[w])
                       /\ run[w].used = OtherModel
                       /\ OneCallOneReply(run[w])

LlmFailed(r) ==
    \E i \in DOMAIN r.log :
        r.log[i].op = "llm_get_response" /\ r.log[i].what = "turn" /\ ~r.log[i].ok

\* C10: a run whose LLM call failed has sent one message and has made no history write
C10_NoHistoryOnLlmFailure ==
    \A w \in Workers :
        (run[w].pc = "done" /\ LlmFailed(run[w]))
        => /\ Sends(run[w]) = 1
           /\ Count(run[w].log, {"add_message"}) = 0

(***************************************************************************)
(* Properties of group chats.                                              *)
(***************************************************************************)
\* the run made the LLM call of the conversational turn
Turned(r) == \E i \in DOMAIN r.log : r.log[i].op = "llm_get_response" /\ r.log[i].what = "turn"

\* the inserts of a user row the run has made: the group capture and the user turn
UserWrites(r) ==
    Cardinality({i \in DOMAIN r.log :
        \/ r.log[i].op = "add_group_message"
        \/ r.log[i].op = "add_message" /\ r.log[i].what = "user"})

\* C11: a run in a group chat that made the conversational turn has written the message
\* to the history as a user row exactly once
C11_GroupUserEntryOnce ==
    \A w \in Workers :
        (run[w].pc = "done" /\ IsGroup(run[w].ev.chat) /\ Turned(run[w]))
        => UserWrites(run[w]) = 1

\* the run's text got as far as the group trigger policy: it is not empty and no command
ReachesPolicy(r) ==
    CASE r.ev.type \in TextTypes -> r.ev.text # NoStr /\ RunCommand(r.ev) = "none"
      [] r.ev.type = "imageMessage" -> TRUE
      [] r.ev.type \in {"audioMessage", "voiceMessage"} ->
           /\ r.ev.url => \E i \in DOMAIN r.log : r.log[i].op = "transcribe" /\ r.log[i].what # "raise"
           /\ \A i \in DOMAIN r.log : ~(r.log[i].op = "send_message" /\ r.log[i].what = "transcription")
      [] OTHER -> FALSE

\* C12 as stated: every finished run for a text of a group chat that passed the gate has
\* stored the message
C12_EveryGroupMessageStored ==
    \A w \in Workers :
        (run[w].pc = "done" /\ IsGroup(run[w].ev.chat) /\ Passed(run[w])
            /\ run[w].ev.type = "textMessage" /\ run[w].ev.text # NoStr)
        => Count(run[w].log, {"add_group_message"}) = 1

\* C12: in a group chat the trigger check is always directly preceded by the capture of
\* the message; every message that passes the gate with a text that is not empty and not
\* a command is captured once, whether or not a reply follows, and the row is in the
\* history when the insert went through
C12_CaptureBeforeTrigger ==
    \A w \in Workers :
        LET r == run[w]
        IN  /\ \A j \in DOMAIN r.log :
                 r.log[j].op = "is_ai_enabled" => j > 1 /\ r.log[j - 1].op = "add_group_message"
            /\ (r.pc = "done" /\ IsGroup(r.ev.chat) /\ Passed(r) /\ ReachesPolicy(r))
               => /\ Count(r.log, {"add_group_message"}) = 1
                  /\ Count(r.log, {"is_ai_enabled"}) = 1
            /\ \A j \in DOMAIN r.log :
                 (r.log[j].op = "add_group_message" /\ r.log[j].ok /\ r.ev.type = "textMessage")
                 => \E k \in DOMAIN history[r.ev.chat] :
                       history[r.ev.chat][k] =
                           Row("user", SenderName(r.ev.sender) \o <<":", " ">> \o r.ev.text)

\* a group message without the nickname was captured and got no reply
C12_Witness ==
    \E w \in Workers :
        /\ run[w].pc = "done"
        /\ run[w].ev = TextEvent(GroupChat, Alice, Txt.hello)
        /\ ~Turned(run[w])
        /\ Sends(run[w]) = 0
        /\ \E j \in DOMAIN run[w].log : run[w].log[j].op = "add_group_message" /\ run[w].log[j].ok
        /\ history[GroupChat] = <<Row("user", <<"Alice", ":", " ">> \o Txt.hello)>>

\* the nickname stands in the text as a whole word, in any letter case
MentionsNickname(text) ==
    \E i \in 1..Len(text) :
        LET last == i + Len(BOT_NICKNAME) - 1
        IN  /\ last <= Len(text)
            /\ Lower(SubSeq(text, i, last)) = Lower(BOT_NICKNAME)
            /\ i > 1 => ~IsWordChar(text[i - 1])
            /\ last < Len(text) => ~IsWordChar(text[last + 1])

\* the text begins with the nickname and a space or a comma
BeginsWithNickname(text) ==
    /\ Len(text) > Len(BOT_NICKNAME)
    /\ Lower(SubSeq(text, 1, Len(BOT_NICKNAME))) = Lower(BOT_NICKNAME)
    /\ text[Len(BOT_NICKNAME) + 1] \in {" ", ","}

\* what the run's lookup of ai_enabled answered
FlagRead(r) == \E i \in DOMAIN r.log : r.log[i].op = "is_ai_enabled" /\ r.log[i].ok /\ r.log[i].what = "on"

RepliedIffTriggered(r) ==
    (r.pc = "done" /\ IsGroup(r.ev.chat) /\ r.ev.type = "textMessage"
        /\ Count(r.log, {"is_ai_enabled"}) = 1)
    => IF FlagRead(r) \/ MentionsNickname(r.ev.text) \/ BeginsWithNickname(r.ev.text)
       THEN Turned(r) /\ Sends(r) = 1
       ELSE ~Turned(r) /\ Sends(r) = 0 /\ Count(r.log, LlmOps) = 0

C14_ImageFileRemoved ==
    \A w \in Workers :
        (run[w].pc = "done" /\ run[w].ev.type = "imageMessage") => ImageFile \notin files

\* C15: when a run that downloaded a voice note, its own or a quoted one, has ended,
\* the file is gone, also when the transcription failed or raised
C15_AudioFileRemoved ==
    \A w \in Workers :
        (run[w].pc = "done" /\ Count(run[w].log, {"transcribe"}) = 1)
        => AudioFile \notin files /\ QuotedFile \notin files

(***************************************************************************)
(* Properties of command recognition.                                      *)
(***************************************************************************)
\* the text reads as one of the admin commands ban, unban or blacklist
ReadsAsAdminCommand(text) ==
    \/ StartsWith(Lower(Strip(text)), <<"/", "b", "a", "n", " ">>)
    \/ StartsWith(Lower(Strip(text)), <<"/", "u", "n", "b", "a", "n", " ">>)
    \/ Lower(Strip(text)) = <<"/", "b", "l", "a", "c", "k", "l", "i", "s", "t">>

\* the sender is the configured admin
FromAdmin(ev) == config.admin # NoStr /\ ev.sender = config.admin

\* the run answered as a conversation: one LLM call for the turn and its answer sent,
\* no message of a command
AnsweredAsConversation(r) ==
    /\ Turned(r)
    /\ Sends(r) = 1
    /\ \A i \in DOMAIN r.log :
          r.log[i].op = "send_message" => r.log[i].what \in {"answer", "llm_error"}

\* C16: only a task of the configured admin changes the blacklist; an admin command from
\* anybody else in a private chat leaves the blacklist alone and is answered as a conversation
C16_AdminOnly ==
    [][/\ blacklist' # blacklist
          => \E w \in Workers : /\ run[w].pc \in {"add_to_blacklist", "remove_from_blacklist"}
                                /\ FromAdmin(run[w].ev)
       /\ \A w \in Workers :
            LET r == run'[w]
            IN  (r.pc = "done" /\ r.ev.type = "textMessage" /\ ReadsAsAdminCommand(r.ev.text)
                    /\ ~FromAdmin(r.ev) /\ Passed(r) /\ ~IsGroup(r.ev.chat))
                => /\ Count(r.log, {"add_to_blacklist", "remove_from_blacklist"}) = 0
                   /\ AnsweredAsConversation(r)]_vars

\* /ban from a sender who is not the admin was answered by the LLM and banned nobody
C16_Witness ==
    \E w \in Workers :
        /\ run[w].pc = "done"
        /\ run[w].ev = TextEvent(Alice, Alice, Txt.ban_alice)
        /\ config.admin = AdminUser
        /\ Passed(run[w])
        /\ AnsweredAsConversation(run[w])
        /\ blacklist = {}

\* the text with the letters of its command token, the first word, in lower case
TokenLowered(text) ==
    LET s == Strip(text)
        k == FirstSpace(s)
    IN  IF k = 0 THEN Lower(s) ELSE Lower(SubSeq(s, 1, k - 1)) \o From(s, k - 1)

\* C17: a text a task works on takes the same command branch, with the same argument,
\* as the text with its command token in lower case
C17_CaseInsensitive ==
    \A w \in Workers :
        LET ev == run[w].ev
        IN  (run[w].pc # "idle" /\ ev.type = "textMessage")
            => /\ CommandOf(ev.text, ev.sender, IsGroup(ev.chat))
                    = CommandOf(TokenLowered(ev.text), ev.sender, IsGroup(ev.chat))
               /\ CommandArg(ev.text, CommandOf(ev.text, ev.sender, IsGroup(ev.chat)))
                    = CommandArg(TokenLowered(ev.text),
                                 CommandOf(TokenLowered(ev.text), ev.sender, IsGroup(ev.chat)))

\* the command words of the bot
KnownTokens ==
    {<<"/", "a", "i">>, <<"/", "r", "e", "s", "e", "t">>, <<"/", "h", "e", "l", "p">>,
     <<"/", "t", "r", "a", "n", "s", "c", "r", "i", "b", "e">>, <<"/", "s", "t", "a", "t", "s">>,
     <<"/", "m", "o", "d", "e", "l">>, <<"/", "s", "e", "a", "r", "c", "h">>,
     <<"/", "d", "r", "a", "w">>, <<"/", "s", "u", "m", "m", "a", "r", "y">>,
     <<"/", "b", "a", "n">>, <<"/", "u", "n", "b", "a", "n">>,
     <<"/", "b", "l", "a", "c", "k", "l", "i", "s", "t">>}

\* the text starts with the command prefix and its first word is no command word
UnknownCommand(text) ==
    /\ StartsWith(Strip(text), <<"/">>)
    /\ Lower(SplitMax1(Strip(text))[1]) \notin KnownTokens

\* C18: a text with an unknown command word gets no reply of a command: in a private chat
\* it is answered as a conversation, in a group chat it is captured and put to the
\* trigger check, and answered by the LLM or not at all
C18_UnknownCommandFallsThrough ==
    \A w \in Workers :
        LET r == run[w]
        IN  (r.pc = "done" /\ r.ev.type = "textMessage" /\ UnknownCommand(r.ev.text) /\ Passed(r))
            => /\ \A i \in DOMAIN r.log :
                     /\ r.log[i].op = "send_message" => r.log[i].what \in {"answer", "llm_error"}
                     /\ r.log[i].op \in WriteOps => r.log[i].op \in {"add_group_message", "add_message"}
               /\ IF IsGroup(r.ev.chat)
                  THEN /\ Count(r.log, {"add_group_message"}) = 1
                       /\ Count(r.log, {"is_ai_enabled"}) = 1
                       /\ Sends(r) = IF Turned(r) THEN 1 ELSE 0
                  ELSE AnsweredAsConversation(r)

\* /foo in a private chat was answered by the LLM
C18_Witness ==
    \E w \in Workers :
        /\ run[w].pc = "done"
        /\ run[w].ev = TextEvent(Alice, Alice, Txt.unknown_cmd)
        /\ Passed(run[w])
        /\ AnsweredAsConversation(run[w])

(***************************************************************************)
(* Properties of voice messages.                                           *)
(***************************************************************************)
\* the run is for a voice note whose transcription succeeded
Heard(r) ==
    /\ r.ev.type \in {"audioMessage", "voiceMessage"}
    /\ \E i \in DOMAIN r.log : r.log[i].op = "transcribe" /\ r.log[i].what = "text"

\* the transcription was sent and nothing else happened: no LLM call, no write
OnlyTranscriptionSent(r) ==
    /\ Sends(r) = 1
    /\ \E i \in DOMAIN r.log : r.log[i].op = "send_message" /\ r.log[i].what = "transcription"
    /\ Count(r.log, LlmOps) = 0
    /\ Count(r.log, WriteOps) = 0

ModeRead(r) ==
    \E i \in DOMAIN r.log : r.log[i].op = "get_transcribe_mode" /\ r.log[i].ok /\ r.log[i].what = "on"

C20_PlaceholderOnFailure ==
    \A w \in Workers :
        LET r == run[w]
        IN  (r.pc = "done" /\ r.ev.type \in {"audioMessage", "voiceMessage"} /\ Passed(r)
                /\ \E i \in DOMAIN r.log :
                      r.log[i].op = "transcribe" /\ r.log[i].what \in {"empty", "raise"})
            => IF IsGroup(r.ev.chat)
               THEN Count(r.log, {"add_group_message"}) = 1
               ELSE /\ Turned(r)
                    /\ r.prompt # <<>>
                    /\ r.prompt[Len(r.prompt)].content.text = NotRecognisedText


(***************************************************************************)
(* Quoted messages (handlers.py 54-114).                                   *)
(***************************************************************************)
Whats(r, op) == {r.log[i].what : i \in DOMAIN r.log \cap {j \in 1..Len(r.log) : r.log[j].op = op}}

Within(part, str) == \E n \in 1..Len(str) : OccursAt(str, part, n)

\* the handler of a private message that may quote another has returned its text and context
Resolved(r) ==
    /\ r.ev.type \in {"extendedTextMessage", "quotedMessage"}
    /\ r.pc = "get_history"

\* C21: a quoted voice message that was fetched with a download URL and transcribed to a
\* non-empty text gives a context holding the transcription and the name of its sender; a
\* fetched message without URL gives a placeholder; a quoted text gives the text under its
\* label; any other quoted type gives no context, and the task goes on.
C21_QuotedContext ==
    \A w \in Workers :
      LET r == run[w]
      IN  Resolved(r) =>
            /\ ( /\ r.ev.quoted \in {"audioMessage", "voiceMessage"}
                 /\ "url" \in Whats(r, "get_message")
                 /\ "text" \in Whats(r, "transcribe") )
               => /\ Within(Transcription, r.quoted)
                  /\ Within(r.orig, r.quoted)
                  /\ r.orig \in {OriginalSender, SomebodyName}
            /\ ( /\ r.ev.quoted \in {"audioMessage", "voiceMessage"}
                 /\ "no_url" \in Whats(r, "get_message") )
               => /\ r.quoted = VoiceNoUrl
                  /\ Whats(r, "transcribe") = {}
            /\ r.ev.quoted = "textMessage" => r.quoted = QuoteLabel \o QuotedText
            /\ r.ev.quoted \notin {"audioMessage", "voiceMessage", "textMessage", "extendedTextMessage"}
               => r.quoted = NoStr

C21_Witness ==
    \E w \in Workers :
      /\ Resolved(run[w])
      /\ "text" \in Whats(run[w], "transcribe")
      /\ run[w].quoted = VoiceLabel(OriginalSender) \o Transcription


(***************************************************************************)
(* The history window (context.py 25-43).                                  *)
(***************************************************************************)
\* part is the end of all, in the same order
IsSuffix(part, all) ==
    /\ Len(part) <= Len(all)
    /\ \A i \in 1..Len(part) : part[i] = all[Len(all) - Len(part) + i]

Min(a, b) == IF a <= b THEN a ELSE b

\* C22: get_history returns at most HISTORY_LIMIT rows, and they are the end of the chat's
\* rows in the order they were stored: the most recent ones, oldest first (nothing at all
\* when the select fails).
C22_HistoryWindow ==
    \A w \in Workers :
      run[w].pc = "stats_get_model" =>
        LET h == run[w].hist
            all == history[run[w].ev.chat]
        IN  /\ Len(h) <= HISTORY_LIMIT
            /\ IsSuffix(h, all)
            /\ Len(h) \in {0, Min(Len(all), HISTORY_LIMIT)}

C22_Witness ==
    \E w \in Workers :
      /\ run[w].pc = "stats_get_model"
      /\ Len(history[run[w].ev.chat]) > HISTORY_LIMIT
      /\ Len(run[w].hist) = HISTORY_LIMIT
      /\ run[w].hist[1] = NthRow(Len(history[run[w].ev.chat]) - HISTORY_LIMIT + 1)
      /\ run[w].hist[HISTORY_LIMIT] = NthRow(Len(history[run[w].ev.chat]))


(***************************************************************************)
(* The message list of a turn (worker.py 122-135).                         *)
(***************************************************************************)
\* the rows a message list was built from, without the element of the current turn
RowsOf(prompt) ==
    [i \in 1..(Len(prompt) - 1) |-> Row(prompt[i].role, prompt[i].content.text)]

\* the message list is built and the model has not been chosen yet
Built(r) == r.pc = "get_model"

\* C23: the message list is the stored history, oldest first, followed by the current turn
\* as its last element; the content of the current turn is a plain string, or with a
\* downloaded picture an object with a text and the file; a quoted context stands before
\* the text of the user.
C23_MessageList ==
    \A w \in Workers :
      LET r == run[w]
          n == Len(r.prompt)
          own == IF r.media THEN r.caption ELSE r.text
      IN  Built(r) =>
            /\ n >= 1
            /\ IsSuffix(RowsOf(r.prompt), history[r.ev.chat])
            /\ \A i \in 1..(n - 1) : r.prompt[i].content.kind = "str"
            /\ r.prompt[n].role = "user"
            /\ r.prompt[n].content.kind = IF r.media THEN "dict" ELSE "str"
            /\ r.prompt[n].content.files = IF r.media THEN <<r.file>> ELSE <<>>
            /\ IF r.quoted = NoStr
               THEN r.prompt[n].content.text = own
               ELSE /\ StartsWith(r.prompt[n].content.text, r.quoted)
                    /\ EndsWith(r.prompt[n].content.text, own)
                    /\ Len(r.prompt[n].content.text) > Len(r.quoted) + Len(own)

C23_Witness ==
    \E w \in Workers :
      /\ Built(run[w])
      /\ Len(run[w].prompt) = 3
      /\ RowsOf(run[w].prompt) = <<Row("user", Txt.hello), Row("assistant", LlmAnswer)>>
      /\ run[w].quoted = QuoteLabel \o QuotedText
      /\ run[w].prompt[3].content.text = QuoteLabel \o QuotedText \o QuestionSeparator \o Txt.hello


(***************************************************************************)
(* The order of a successful turn (worker.py 140-152).                     *)
(***************************************************************************)
\* the positions in the task's record of the calls named op that carry what
Where(r, op, what) == {i \in DOMAIN r.log : r.log[i].op = op /\ r.log[i].what = what}

\* the LLM call of the turn returned an answer
Answered(r) ==
    \E i \in DOMAIN r.log :
        r.log[i].op = "llm_get_response" /\ r.log[i].what = "turn" /\ r.log[i].ok

\* llm, then the user row, then the assistant row, then the send, each once
TurnOrder(r) ==
    LET L == Where(r, "llm_get_response", "turn")
        U == Where(r, "add_message", "user")
        A == Where(r, "add_message", "assistant")
        S == Where(r, "send_message", "answer")
    IN  /\ Cardinality(L) = 1 /\ Cardinality(U) = 1
        /\ Cardinality(A) = 1 /\ Cardinality(S) = 1
        /\ \A l \in L, u \in U, a \in A, s \in S :
              /\ l < u /\ u < a /\ a < s
              /\ \A i \in DOMAIN r.log : r.log[i].op = "os_remove" => i > s

\* the rows of the chat end with the text of the user and the answer to it
EndsWithTurn(rows) ==
    /\ Len(rows) >= 2
    /\ rows[Len(rows) - 1].role = "user"
    /\ rows[Len(rows)] = Row("assistant", LlmAnswer)

BothStored(r) ==
    \A i \in DOMAIN r.log : r.log[i].op = "add_message" => r.log[i].ok

\* what the statement says of every chat: nothing is written to the history of the chat
\* before the LLM call of the turn has returned
C24_NoWriteBeforeResponse ==
    \A w \in Workers :
      LET r == run[w]
      IN  \A l \in Where(r, "llm_get_response", "turn") :
            \A i \in 1..(l - 1) : r.log[i].op \notin {"add_message", "add_group_message"}

\* C24: a task whose LLM call returned an answer has written the user row, then the
\* assistant row, then sent the answer, then removed its media file, and when both inserts
\* took effect the history ends with the two rows; before the LLM call returned the task
\* has written nothing to the history with add_message, and nothing at all in a private chat.
C24_TurnOrder ==
    \A w \in Workers :
      LET r == run[w]
      IN  /\ (r.pc = "done" /\ Answered(r)) =>
                /\ TurnOrder(r)
                /\ BothStored(r) => EndsWithTurn(history[r.ev.chat])
                /\ (r.ev.type = "imageMessage" /\ Count(r.log, {"download_file"}) = 1)
                   => ImageFile \notin files
          /\ \A l \in Where(r, "llm_get_response", "turn") :
                \A i \in 1..(l - 1) :
                    /\ r.log[i].op # "add_message"
                    /\ r.log[i].op = "add_group_message" => IsGroup(r.ev.chat)

\* a picture was answered: both rows stored, the answer sent, the file removed after it
C24_Witness ==
    \E w \in Workers :
      /\ run[w].pc = "done" /\ Answered(run[w])
      /\ run[w].ev.type = "imageMessage"
      /\ BothStored(run[w])
      /\ Where(run[w], "os_remove", ImageFile) # {}
      /\ ImageFile \notin files


(***************************************************************************)
(* Containment of failures (worker.py 35-41).                              *)
(***************************************************************************)
\* the task left through an exception
Raised(r) == \E i \in DOMAIN r.log : r.log[i].op = "transcribe" /\ r.log[i].what = "raise"

\* the task of a plain private text of an unlisted sender ended as such a task does: one
\* call of the LLM and after it one send, the answer or the apology
HandledNormally(r) ==
    /\ Cardinality(Where(r, "llm_get_response", "turn")) = 1
    /\ Sends(r) = 1
    /\ \A l \in Where(r, "llm_get_response", "turn") :
          IF r.log[l].ok THEN Where(r, "send_message", "answer") # {} /\ Where(r, "send_message", "answer") \subseteq {i \in DOMAIN r.log : i > l}
          ELSE Where(r, "send_message", "llm_error") # {}

\* C25: a task that raises ends, with no send after the exception and the worker ready for
\* the next event; a task whose LLM call fails ends with the one apology; and a plain
\* private text is handled as always, whatever the tasks before it did.
C25_FailuresContained ==
    \A w \in Workers :
      LET r == run[w]
      IN  /\ Raised(r) =>
               /\ r.pc = "done"
               /\ r.log[Len(r.log)].op = "transcribe"
               /\ Sends(r) = 0
          /\ r.pc \in {"idle", "done"} \/ At(w, {"is_blacklisted", "download", "transcribe",
                 "audio_get_transcribe_mode", "send_transcription", "get_history", "get_model",
                 "llm", "add_user", "add_assistant", "send_response", "remove_media"})
          /\ (r.pc = "done" /\ LlmFailed(r)) =>
               /\ Sends(r) = 1
               /\ Where(r, "send_message", "llm_error") # {}
          /\ (r.pc = "done" /\ IsPlainPrivateText(r.ev) /\ ~Listed(r)) => HandledNormally(r)

\* the task before raised and left its file behind; the text after it was answered
C25_Witness ==
    \E w \in Workers :
      /\ events = 2
      /\ AudioFile \in files
      /\ run[w].pc = "done"
      /\ IsPlainPrivateText(run[w].ev)
      /\ Answered(run[w])
      /\ HandledNormally(run[w])


(***************************************************************************)
(* Validation of command arguments (worker.py 274-334).                    *)
(***************************************************************************)
\* C26: /search or /draw without argument sends the usage text and calls nothing else;
\* /model with a name that is not an available model sends the not-found message and
\* makes no set_model call; and whenever the preferred model of a chat changes, it is the
\* set_model step of a /model command of that chat, and the new value is an available model.
C26_ArgumentsValidated ==
    [][\A w \in Workers :
         LET r == run'[w]
             cmd == RunCommand(r.ev)
         IN  /\ (r.pc = "done" /\ Passed(r) /\ r.ev.type = "textMessage"
                    /\ cmd \in {"search_usage", "draw_usage"})
                => /\ Len(r.log) = 2
                   /\ r.log[2] = [op |-> "send_message", what |-> cmd, ok |-> TRUE]
             /\ (r.pc = "done" /\ Passed(r) /\ r.ev.type = "textMessage" /\ cmd = "model_set"
                    /\ CommandArg(r.ev.text, cmd) \notin AvailableModels)
                => /\ Sends(r) = 1
                   /\ Where(r, "send_message", "model_not_found") # {}
                   /\ Count(r.log, {"set_model", "search_and_summarize", "generate_image"}
                                      \cup LlmOps) = 0
             /\ \A c \in Chats :
                  chat_settings'[c].model # chat_settings[c].model
                  => /\ chat_settings'[c].model \in AvailableModels
                     /\ \E v \in Workers :
                          /\ run[v].pc = "set_model" /\ run[v].ev.chat = c
                          /\ RunCommand(run[v].ev) = "model_set"
                          /\ chat_settings'[c].model = CommandArg(run[v].ev.text, "model_set")]_vars

\* /model with an unknown name was refused and the chat kept the model it preferred
C26_Witness ==
    \E w \in Workers :
      /\ run[w].pc = "done"
      /\ run[w].ev.text = Txt.model_bad
      /\ Where(run[w], "send_message", "model_not_found") # {}
      /\ chat_settings[run[w].ev.chat].model = OtherModel


(***************************************************************************)
(* Button presses (worker.py 90-99, 173-207).                              *)
(***************************************************************************)
KnownButtons == {"btn_reset", "btn_help", "btn_transcribe", "btn_ai_on", "btn_ai_off"}

\* the call that is the action of a button; the help button only sends
ButtonCall(button) ==
    CASE button = "btn_reset" -> {"clear_history"}
      [] button = "btn_transcribe" -> {"set_transcribe_mode"}
      [] button \in {"btn_ai_on", "btn_ai_off"} -> {"set_ai_enabled"}
      [] OTHER -> {}

\* the steps a task takes on behalf of a button
ButtonSteps ==
    {"is_blacklisted", "clear_history", "send_help_with_buttons", "get_transcribe_mode",
     "set_transcribe_mode", "set_ai_enabled", "reply", "done"}

ExpiresWithin(key, d) == key.val # 0 => key.ttl \in 1..d

\* C28: every rate-limit counter that exists disappears within RATE_LIMIT_WINDOW seconds,
\* every dedup record within DEDUP_TTL seconds
C28_RecordsExpire ==
    /\ \A c \in Chats : ExpiresWithin(ratelimit[c], RATE_LIMIT_WINDOW)
    /\ \A m \in MsgIds : ExpiresWithin(dedup[m], DEDUP_TTL)

\* C29: the step that answers rate_limited leaves the counter, the dedup store and the
\* queue as they are, and the request has written neither; the dedup store is written only
\* by a request the limiter let through; so when the id is delivered again and the counter
\* is gone, the limiter lets it through, and with no dedup record of the id it goes on to
\* be enqueued.
C29_RateLimitedDropped ==
    [][\A s \in Slots :
         /\ (req[s].pc # "rate_limited" /\ req'[s].pc = "rate_limited")
            => /\ UNCHANGED <<ratelimit, dedup, arrivals, handed>>
               /\ ~req'[s].wroteRl /\ ~req'[s].wroteDd
         /\ (req[s].pc = "rate_limited" /\ req'[s].pc = "rate_limited")
            => UNCHANGED <<handed>>
         /\ (req[s].pc = "dd_set" /\ req'[s].pc = "enqueue") => req[s].wroteRl
         /\ (req[s].redo /\ req[s].pc = "rl_get" /\ ratelimit[req[s].chat].val = 0
                /\ req'[s].pc \notin {"rl_get", "error"})
            => req'[s].pc = "rl_set"
         /\ (req[s].redo /\ req[s].pc = "dd_get" /\ dedup[req[s].id].val = 0
                /\ req'[s].pc \notin {"dd_get", "error"})
            => req'[s].pc = "dd_set"]_vars

\* an id that was answered rate_limited was delivered again after the window and enqueued
C29_Witness ==
    \E s \in Slots : /\ req[s].redo
                     /\ req[s].pc = "received"
                     /\ handed[req[s].id] = 1
                     /\ arrivals[req[s].chat] = 1

\* C30: while two deliveries with different ids are in the handler, the limiter has let
\* through at most RATE_LIMIT_MAX_REQUESTS deliveries of the chat in the current window
C30_WindowBound ==
    \A c \in WebChats :
        (\A s, t \in Slots : s # t => req[s].id # req[t].id)
        => arrivals[c] <= RATE_LIMIT_MAX_REQUESTS


\* C31: a rate-limit counter that exists has a time to live, so that it disappears and the
\* chat is let through again
C31_CounterHasExpiry ==
    \A c \in Chats : ratelimit[c].val # 0 => ratelimit[c].ttl # NoExpiry

\* C32: an id has a dedup record only if it was handed to process_message since the record
\* was made, or is about to be by the request that wrote the record
C32_SeenOnlyIfEnqueued ==
    \A m \in MsgIds :
        (dedup[m].val # 0 /\ ~\E s \in Slots : req[s].pc = "enqueue" /\ req[s].id = m)
        => handed[m] >= 1


(***************************************************************************)
(* The blacklist gate and commands (worker.py 60-63, 104-109, 382-396).    *)
(***************************************************************************)
\* the text of the event is a command for its sender
IsCommandEvent(ev) == ev.type \in TextTypes /\ ev.text # NoStr /\ RunCommand(ev) # "none"

C34_GateFailsOpen ==
    \A w \in Workers :
      LET r == run[w]
      IN  (Listed(r) /\ r.pc # "is_blacklisted") =>
            IF r.log[1].ok
            THEN r.pc = "done" /\ Len(r.log) = 1
            ELSE (r.pc = "done" /\ IsPlainPrivateText(r.ev)) => HandledNormally(r)

\* the lookup failed for a listed sender and the plain text was answered
C34_Witness ==
    \E w \in Workers :
      /\ run[w].pc = "done"
      /\ Listed(run[w]) /\ ~run[w].log[1].ok
      /\ run[w].ev.sender \in blacklist
      /\ IsPlainPrivateText(run[w].ev)
      /\ Answered(run[w])


(***************************************************************************)
(* The current message in the message list (worker.py 111-135).            *)
(***************************************************************************)
\* the task stored its message with add_group_message
Captured(r) == \E i \in DOMAIN r.log : r.log[i].op = "add_group_message" /\ r.log[i].ok

\* the rows the chat held before the task of r stored anything
EarlierRows(r) ==
    IF Captured(r)
    THEN SubSeq(history[r.ev.chat], 1, Len(history[r.ev.chat]) - 1)
    ELSE history[r.ev.chat]

\* what the user wrote: the caption of a picture, else the text
OwnContent(r) == IF r.media THEN r.caption ELSE r.text

\* C35: when no earlier message of the chat holds the content of the current message, the
\* message list built for the LLM holds that content in exactly one element, the last
C35_CurrentOnce ==
    \A w \in Workers :
      LET r == run[w]
      IN  (Built(r) /\ \A i \in DOMAIN EarlierRows(r) :
                          ~Within(OwnContent(r), EarlierRows(r)[i].content))
          => {i \in DOMAIN r.prompt : Within(OwnContent(r), r.prompt[i].content.text)}
                = {Len(r.prompt)}


\* C36: a task that has stored an assistant row has sent the reply, and the send took effect
C36_AssistantOnlyIfSent ==
    \A w \in Workers :
      LET r == run[w]
      IN  (r.pc = "done"
             /\ \E i \in DOMAIN r.log :
                   r.log[i].op = "add_message" /\ r.log[i].what = "assistant" /\ r.log[i].ok)
          => \E j \in DOMAIN r.log : r.log[j].op = "send_message" /\ r.log[j].ok


(***************************************************************************)
(* Tasks of one chat side by side (worker.py 122-148, 227-232, 251-257).   *)
(***************************************************************************)
AllDone == \A w \in Workers : run[w].pc = "done"

\* the task ran the conversational turn and both its rows were stored
StoredTurn(r) == Answered(r) /\ Count(r.log, {"add_message"}) = 2 /\ BothStored(r)

\* every assistant row stands right behind a user row
Paired(rows) ==
    \A i \in DOMAIN rows :
        rows[i].role = "assistant" => (i > 1 /\ rows[i - 1].role = "user")

\* C37: when two turns of one private chat have both ended with their rows stored, every
\* assistant row of the history stands right behind the user row it answers
C37_TurnsStayPaired ==
    (AllDone /\ \A w \in Workers : StoredTurn(run[w])) => Paired(history[Alice])

\* the task carried out /reset and the delete took effect
ResetDone(r) == IsResetText(r.ev) /\ ClearedOk(r)

\* C38: when a /reset and a turn of one chat have both ended, the history is empty or
\* holds the whole turn, the user row and then the assistant row
C38_ResetOrWholeTurn ==
    (AllDone /\ \E v, w \in Workers : ResetDone(run[v]) /\ StoredTurn(run[w]))
    => \/ history[Alice] = <<>>
       \/ /\ Len(history[Alice]) = 2
          /\ history[Alice][1].role = "user"
          /\ history[Alice][2].role = "assistant"

\* the event asks for the transcribe mode to be switched
IsToggle(ev) ==
    \/ ev.type = "textMessage" /\ Lower(Strip(ev.text)) = Cmd.transcribe
    \/ ev.type = "buttonsResponseMessage" /\ ev.button = "btn_transcribe"

\* the tasks that switched the mode and whose write took effect
Toggled ==
    {w \in Workers : /\ run[w].pc = "done" /\ IsToggle(run[w].ev)
                     /\ \E i, j \in DOMAIN run[w].log :
                           /\ run[w].log[i].op = "get_transcribe_mode" /\ run[w].log[i].ok
                           /\ run[w].log[j].op = "set_transcribe_mode" /\ run[w].log[j].ok}

\* C39: when every task has ended and all switches of the mode were read and written, the mode of
\* the chat, off at the start, is on exactly when the number of switches is odd
C39_ToggleParity ==
    (AllDone /\ \A w \in Workers : IsToggle(run[w].ev) => w \in Toggled)
    => (chat_settings[Alice].transcribe_mode <=> (Cardinality(Toggled) % 2 = 1))


(***************************************************************************)
(* Events that yield no text (worker.py 65-99).                            *)
(***************************************************************************)
KnownTypes == TextTypes \cup {"audioMessage", "voiceMessage", "imageMessage", "buttonsResponseMessage"}

\* the extraction of the event leaves text_content empty: a type no branch handles, a
\* text message with an empty text, a button response without a button id
YieldsNoText(ev) ==
    \/ ev.type \notin KnownTypes
    \/ ev.type = "textMessage" /\ ev.text = NoStr
    \/ ev.type = "buttonsResponseMessage" /\ ev.button = ""

\* C40: a task that got past the blacklist gate with an event whose extraction yields no
\* text has ended right there: the lookup of the gate is the only call it made, so no
\* command, no group storage, no LLM call, no history write and no send
C40_EmptyTextNoEffect ==
    \A w \in Workers :
        (Passed(run[w]) /\ YieldsNoText(run[w].ev))
        => /\ run[w].pc = "done"
           /\ Len(run[w].log) = 1
           /\ run[w].cmd = ""

C40_Witness ==
    \E w \in Workers :
        /\ run[w].pc = "done" /\ Passed(run[w]) /\ Len(run[w].log) = 1
        /\ run[w].ev.type = "buttonsResponseMessage" /\ run[w].ev.button = ""
        /\ YieldsNoText(run[w].ev)
====
